---- MODULE Spec2Model ----
(***************************************************************************)
(* The retrieval subsystem of help_chatbot: rag.py (vector store, indexer, *)
(* retriever) and the index maintenance of tools.py.                       *)
(*                                                                         *)
(* A file is a sequence of lines, a line a sequence of string tokens (the  *)
(* blank line is <<>>).  A chunk text, the join of a window of lines, is   *)
(* kept as that window.  Paths are <<directory, stem, extension>>.         *)
(* Modification times are readings of one clock, now.                      *)
(***************************************************************************)
EXTENDS Integers, Sequences, FiniteSets, TLC

VARIABLES
    files,      \* user files of the workspace: path -> [exists, lines, mtime]
    store,      \* index files: store path -> [exists, lines, mtime]
    now,        \* the latest clock reading given to a file as modification time
    edits,      \* number of user edits so far
    saves,      \* number of builds ended so far
    lastOp,     \* the operation that ran last
    pre,        \* the index file of the last build as it was before the build ran
    fresh,      \* chunks the last build created (all / new_or_modified), before embedding
    incRuns,    \* incremental builds completed since the last file change (capped at 2)
    startup,    \* the last ensure_rag_index_built call: what it returned, the index it used
    rag,        \* the last _run_rag call: the index it used, what retrieve loaded and returned
    probe,      \* the last _is_index_stale call made with a small max_samples
    site,       \* the workspace besides its indexed user files: root, README, settings, rg
    tool,       \* the last search_codebase_tool call: its arguments and what it returned
    obs,        \* the last call made on a store, an embedder or cosine_similarity alone
    writers,    \* overlapping build_index_incremental calls: where each is, what it holds
    build       \* the call under way: its caller, the files yet to visit, the chunks made so far

indexer == <<files, store, now, edits, saves, lastOp, pre, fresh, incRuns>>

apart == <<site, tool, obs, writers, build>>

vars == <<files, store, now, edits, saves, lastOp, pre, fresh, incRuns, startup, rag, probe,
          site, tool, obs, writers, build>>

----------------------------------------------------------------------------
(* Bounds *)

MaxLines == 2       \* most lines of a user file after its full windows
MaxWindows == 1     \* most full windows of text a user file begins with
MaxTail == 1        \* most lines after the full windows of a file the indexer's runs hold
MaxEdits == 1       \* user edits in one behaviour
MaxSaves == 2       \* builds in one behaviour
MaxSamplesTried == 2 \* largest max_samples _is_index_stale is probed with

\* Retriever.chunk_lines as tools.py builds its retrievers: the default
ChunkLines == 120

----------------------------------------------------------------------------
(* Paths and file contents *)

Min(a, b) == IF a <= b THEN a ELSE b

Blank == <<>>
Word == <<"x">>
LineAlphabet == {Blank, Word}

UserPaths == { <<"", "a", ".py">>, <<"docs", "b", ".md">> }

AskIndexPath == <<"", ".ask_rag_index", ".json">>

IndexPathOfRunRag == <<".agent_engine", "rag_index", ".json">>

get_rag_index_path == AskIndexPath

StorePaths == {AskIndexPath, IndexPathOfRunRag}

\* the first file with readme in its name
ReadmePath == <<"", "README", "">>

\* os.path.join(cwd, "config", "memory.yaml")
SettingsPath == <<"config", "memory", ".yaml">>

\* files inside the directories the listing and the walks are to leave out
GitConfigPath == <<".git", "config", "">>
VenvFilePath == <<"venv", "site", ".py">>
CachePath == <<"__pycache__", "a", ".txt">>

ExcludedPaths == {GitConfigPath, VenvFilePath, CachePath}

\* a file in a directory whose name holds the name of a directory left out
GithubPath == <<".github", "w", ".yml">>

FilePaths == UserPaths \cup {ReadmePath, SettingsPath, GithubPath} \cup ExcludedPaths

\* the path of a workspace root: one clear of the names left out, one holding venv
PlainRoot == "w"
VenvRoot == "venv_projects/w"
RootNames == {PlainRoot, VenvRoot}

include_ext == {".py", ".md", ".txt", ".json", ".yaml", ".yml"}

SkipDirs == {".git", "venv", "__pycache__"}

\* a path name cut where a name of SkipDirs begins and where it ends
Pieces(name) ==
    CASE name = ".github" -> <<".git", "hub">>
      [] name = VenvRoot -> <<"venv", "_projects/w">>
      [] OTHER -> <<name>>

\* part in name
Holds(name, part) == \E i \in 1..Len(Pieces(name)) : Pieces(name)[i] = part

\* skip in root, for the root os.walk gives a directory: the path of the
\* workspace root joined with that of the directory in it
SkippedDir(w, dir) == \E skip \in SkipDirs : Holds(w.at, skip) \/ Holds(dir, skip)

\* rag.py 171/219 and 174/223: the directory is not skipped, the name has an included extension
Eligible(w, p) == ~SkippedDir(w, p[1]) /\ p[3] \in include_ext

\* k windows of chunk_lines lines of text each
FullWindows(k) == [i \in 1..(k * ChunkLines) |-> Word]

\* what a file can hold: full windows of text, then up to MaxLines lines
Contents ==
    { FullWindows(k) \o tail :
        k \in 0..MaxWindows, tail \in UNION { [1..n -> LineAlphabet] : n \in 0..MaxLines } }

NoFile == [exists |-> FALSE, lines |-> <<>>, mtime |-> 0]

\* a workspace whose root exists, at a path clear of the names left out, with no
\* files but those of files and store, and no rg on the PATH; dirs are the
\* directories below the root that hold no file, empty_py and empty_md count
\* further files of no lines
PlainSite ==
    [root |-> TRUE, at |-> PlainRoot, dirs |-> {}, empty_py |-> 0, empty_md |-> 0, rg |-> FALSE]

\* no index file at a store path
NoIndexFile == [exists |-> FALSE, lines |-> <<>>, mtime |-> 0]

\* what a build found at its store path when nothing was there
NoStore == [exists |-> FALSE, chunks |-> <<>>, mtime |-> 0]

----------------------------------------------------------------------------
(* Chunks and the index file *)

ZeroScore == <<0, 1>>

Chunk(rel, s, e, text, mtime) ==
    [ id |-> <<rel, s, e>>, path |-> rel, start_line |-> s, end_line |-> e,
      text |-> text, embedding |-> <<>>, score |-> ZeroScore,
      modified_time |-> mtime ]

\* text.strip() is empty
IsBlankText(text) == \A i \in 1..Len(text) : text[i] = Blank

\* a number as json.dump writes it
NumTokens(n) == IF n < 0 THEN <<"-", ToString(-n)>> ELSE <<ToString(n)>>

RECURSIVE NumsTokens(_)
NumsTokens(v) == IF v = <<>> THEN <<>> ELSE NumTokens(Head(v)) \o NumsTokens(Tail(v))

\* lines lo..hi of a string as json.dump writes it, quoted: line by line, each
\* with its length
RECURSIVE FlattenLinesIn(_, _, _)
FlattenLinesIn(text, lo, hi) ==
    IF lo > hi THEN <<>>
    ELSE IF lo = hi THEN NumTokens(Len(text[lo])) \o text[lo]
    ELSE LET mid == (lo + hi) \div 2
         IN  FlattenLinesIn(text, lo, mid) \o FlattenLinesIn(text, mid + 1, hi)

FlattenLines(text) == FlattenLinesIn(text, 1, Len(text))

\* "embedding": [...] as json.dump with indent=2 writes it: a line to a
\* component, or [] on the line of the key
EmbeddingLines(v) ==
    IF v = <<>> THEN << <<"embedding", "[]", ",">> >>
    ELSE << <<"embedding", "[">> >>
         \o [i \in 1..Len(v) |-> NumTokens(v[i]) \o (IF i < Len(v) THEN <<",">> ELSE <<>>)]
         \o << <<"]", ",">> >>

\* one record of the JSON array, fields in the order save writes them, a line
\* to a field; last: no record follows
RecordLines(c, last) ==
    << <<"{">>,
       <<"id">> \o c.id[1] \o NumTokens(c.id[2]) \o NumTokens(c.id[3]) \o <<",">>,
       <<"path">> \o c.path \o <<",">>,
       <<"start_line">> \o NumTokens(c.start_line) \o <<",">>,
       <<"end_line">> \o NumTokens(c.end_line) \o <<",">>,
       <<"text">> \o NumTokens(Len(c.text)) \o FlattenLines(c.text) \o <<",">> >>
    \o EmbeddingLines(c.embedding)
    \o << <<"score">> \o NumsTokens(c.score) \o <<",">>,
          <<"modified_time">> \o NumTokens(c.modified_time),
          IF last THEN <<"}">> ELSE <<"}", ",">> >>

RECURSIVE RecordsFrom(_, _)
RecordsFrom(chunks, i) ==
    IF i > Len(chunks) THEN <<>>
    ELSE RecordLines(chunks[i], i = Len(chunks)) \o RecordsFrom(chunks, i + 1)

\* the text of the index file as json.dump(serializable, f, indent=2) leaves it
IndexFileLines(chunks) ==
    IF chunks = <<>> THEN << <<"[]">> >>
    ELSE << <<"[">> >> \o RecordsFrom(chunks, 1) \o << <<"]">> >>

\* the tokens of lines lo..hi of a text, line after line
RECURSIVE FlattenFileIn(_, _, _)
FlattenFileIn(lines, lo, hi) ==
    IF lo > hi THEN <<>>
    ELSE IF lo = hi THEN lines[lo]
    ELSE LET mid == (lo + hi) \div 2
         IN  FlattenFileIn(lines, lo, mid) \o FlattenFileIn(lines, mid + 1, hi)

FlattenFile(lines) == FlattenFileIn(lines, 1, Len(lines))

\* the natural number that is written tok, looked for in lo..hi and beyond
RECURSIVE ReadNatFrom(_, _, _)
ReadNatFrom(tok, lo, hi) ==
    IF \E n \in lo..hi : ToString(n) = tok
    THEN CHOOSE n \in lo..hi : ToString(n) = tok
    ELSE ReadNatFrom(tok, hi + 1, 2 * hi + 1)

\* int(tok) for the digits of a natural number
ReadNat(tok) == ReadNatFrom(tok, 0, 1)

\* json.load of a number at position i: its value and the position after it
ReadNum(toks, i) ==
    IF toks[i] = "-"
    THEN [val |-> -ReadNat(toks[i + 1]), next |-> i + 2]
    ELSE [val |-> ReadNat(toks[i]), next |-> i + 1]

\* n numbers from position i
RECURSIVE ReadNums(_, _, _)
ReadNums(toks, i, n) ==
    IF n = 0 THEN [val |-> <<>>, next |-> i]
    ELSE LET x == ReadNum(toks, i)
             rest == ReadNums(toks, x.next, n - 1)
         IN  [val |-> <<x.val>> \o rest.val, next |-> rest.next]

\* the numbers of an array from position i, after its [, to its ]
RECURSIVE ReadArray(_, _)
ReadArray(toks, i) ==
    IF toks[i] = "]" THEN [val |-> <<>>, next |-> i + 1]
    ELSE LET x == ReadNum(toks, i)
             rest == ReadArray(toks, IF toks[x.next] = "," THEN x.next + 1 ELSE x.next)
         IN  [val |-> <<x.val>> \o rest.val, next |-> rest.next]

\* n quoted lines from position i
RECURSIVE ReadLines(_, _, _)
ReadLines(toks, i, n) ==
    IF n = 0 THEN [val |-> <<>>, next |-> i]
    ELSE IF n = 1
    THEN LET k == ReadNum(toks, i)
         IN  [val |-> << SubSeq(toks, k.next, k.next + k.val - 1) >>, next |-> k.next + k.val]
    ELSE LET a == ReadLines(toks, i, n \div 2)
             b == ReadLines(toks, a.next, n - n \div 2)
         IN  [val |-> a.val \o b.val, next |-> b.next]

\* the quoted lines that follow their count tn
ReadCounted(toks, tn) == ReadLines(toks, tn.next, tn.val)

\* the value of "embedding" whose key is at position i: [] or an array
ReadEmbedding(toks, i) ==
    IF toks[i + 1] = "[]" THEN [val |-> <<>>, next |-> i + 2] ELSE ReadArray(toks, i + 2)

\* Chunk(**item) of the record whose { is at position b, and the position after
\* its }
ParseRecord(toks, b) ==
    LET id_s == ReadNum(toks, b + 5)
        id_e == ReadNum(toks, id_s.next)
        p    == id_e.next + 1
        sl   == ReadNum(toks, p + 6)
        el   == ReadNum(toks, sl.next + 2)
        tx   == ReadCounted(toks, ReadNum(toks, el.next + 2))
        em   == ReadEmbedding(toks, tx.next + 1)
        sc   == ReadNums(toks, em.next + 2, 2)
        mt   == ReadNum(toks, sc.next + 2)
    IN  [ val |-> [ id |-> << <<toks[b + 2], toks[b + 3], toks[b + 4]>>, id_s.val, id_e.val >>,
                    path |-> <<toks[p + 1], toks[p + 2], toks[p + 3]>>,
                    start_line |-> sl.val, end_line |-> el.val,
                    text |-> tx.val, embedding |-> em.val, score |-> sc.val,
                    modified_time |-> mt.val ],
          next |-> mt.next + 1 ]

\* a parsed value r before the values parsed after it
Before(r, rest) == [val |-> <<r.val>> \o rest.val, next |-> rest.next]

\* the position of the value that follows the one ending before position i
AfterComma(toks, i) == IF toks[i] = "," THEN i + 1 ELSE i

\* the records from position i on, to the ] of the array
RECURSIVE ParseRecords(_, _)
RECURSIVE AfterRecord(_, _)
ParseRecords(toks, i) ==
    IF toks[i] # "{" THEN [val |-> <<>>, next |-> i] ELSE AfterRecord(toks, ParseRecord(toks, i))

\* the record r and the records after it
AfterRecord(toks, r) == Before(r, ParseRecords(toks, AfterComma(toks, r.next)))

\* the array whose records recs end at its ]
Closed(recs) == [val |-> recs.val, next |-> recs.next + 1]

\* the array a text begins with, and the position after its ] (no text: no
\* array, which IsJsonArray tells from the empty array)
ParseArray(toks) ==
    IF toks = <<>> THEN [val |-> <<>>, next |-> 1]
    ELSE IF toks[1] = "[]" THEN [val |-> <<>>, next |-> 2]
    ELSE Closed(ParseRecords(toks, 2))

\* whether json.load accepts the text: one array of records and nothing after it
IsJsonArray(lines) ==
    LET toks == FlattenFile(lines)
    IN  /\ toks # <<>>
        /\ toks[1] \in {"[]", "["}
        /\ ParseArray(toks).next = Len(toks) + 1

\* json.load followed by [Chunk(**item) for item in data]
ParseIndexFile(lines) == ParseArray(FlattenFile(lines)).val

\* what the walk finds at path p
OnDisk(p, fs, st) == IF p \in StorePaths THEN st[p] ELSE fs[p]

\* SimpleVectorStore.load
Load(st, s) == IF st[s].exists THEN ParseIndexFile(st[s].lines) ELSE <<>>

\* a mutation of Save: the records already in the file stay
SaveMerging(st, s, chunks, t) ==
    [st EXCEPT ![s] = [exists |-> TRUE,
                       lines |-> IndexFileLines(ParseIndexFile(st[s].lines) \o chunks),
                       mtime |-> t]]

\* SimpleVectorStore.save at clock reading t
Save(st, s, chunks, t) ==
    [st EXCEPT ![s] = [exists |-> TRUE, lines |-> IndexFileLines(chunks), mtime |-> t]]

\* the index at store path s as a build finds it
Found(st, s) == [exists |-> st[s].exists, chunks |-> Load(st, s), mtime |-> st[s].mtime]

----------------------------------------------------------------------------
(* Embedding service *)

NonBlankCount(text) == Cardinality({i \in 1..Len(text) : text[i] # Blank})

\* the vector the service answers for a text: its lines of text and its blank
\* lines counted
ServiceVector(text) == <<NonBlankCount(text), Len(text) - NonBlankCount(text)>>

RECURSIVE EmbedFrom(_, _, _)
EmbedFrom(texts, drop, i) ==
    IF i > Len(texts) THEN <<>>
    ELSE (IF i = drop THEN <<>> ELSE <<ServiceVector(texts[i])>>)
         \o EmbedFrom(texts, drop, i + 1)

\* OllamaEmbeddingProvider.embed when the answer to text number drop has no
\* parseable vector (drop = 0: every answer parses)
Embed(texts, drop) == EmbedFrom(texts, drop, 1)

----------------------------------------------------------------------------
(* Indexer *)

RECURSIVE ChunkFileFrom(_, _, _, _)
ChunkFileFrom(rel, lines, mtime, i) ==
    IF i >= Len(lines) THEN <<>>
    ELSE LET e == Min(i + ChunkLines, Len(lines))
             text == SubSeq(lines, i + 1, e)
         IN  (IF IsBlankText(text) THEN <<>> ELSE << Chunk(rel, i + 1, e, text, mtime) >>)
             \o ChunkFileFrom(rel, lines, mtime, i + ChunkLines)

\* the chunking loop with end_line = i + chunk_lines, not clamped to the file
RECURSIVE ChunkFileUnclampedFrom(_, _, _, _)
ChunkFileUnclampedFrom(rel, lines, mtime, i) ==
    IF i >= Len(lines) THEN <<>>
    ELSE LET text == SubSeq(lines, i + 1, Min(i + ChunkLines, Len(lines)))
         IN  (IF IsBlankText(text) THEN <<>>
              ELSE << Chunk(rel, i + 1, i + ChunkLines, text, mtime) >>)
             \o ChunkFileUnclampedFrom(rel, lines, mtime, i + ChunkLines)

ChunkFileUnclamped(rel, lines, mtime) == ChunkFileUnclampedFrom(rel, lines, mtime, 0)

\* the chunking loop of build_index and build_index_incremental
ChunkFile(rel, lines, mtime) == ChunkFileFrom(rel, lines, mtime, 0)

SelectPath(chunks, rel) == SelectSeq(chunks, LAMBDA c : c.path = rel)

IndexedPaths(chunks) == {chunks[i].path : i \in 1..Len(chunks)}

\* indexed_mtimes: the modified_time of the first chunk of each path
IndexedMtime(chunks, rel) ==
    LET first == CHOOSE i \in 1..Len(chunks) :
                    /\ chunks[i].path = rel
                    /\ \A j \in 1..(i - 1) : chunks[j].path # rel
    IN  chunks[first].modified_time

Tagged(chunks, isNew) == [i \in 1..Len(chunks) |-> [c |-> chunks[i], isNew |-> isNew]]

\* the sequences that hold every element of S once
Perms(S) ==
    {f \in [1..Cardinality(S) -> S] : \A i, j \in 1..Cardinality(S) : f[i] = f[j] => i = j}

\* the files of the workspace a walk comes to chunk
Listed(w, fs, st) ==
    {p \in FilePaths \cup StorePaths : OnDisk(p, fs, st).exists /\ Eligible(w, p)}

\* the files of directory dir a walk comes to chunk, in the orders the listing
\* of the directory can give them
FileOrders(w, fs, st, dir) == Perms({p \in Listed(w, fs, st) : p[1] = dir})

\* the files of the root directory in the orders os.walk can yield them: it
\* scans the root as it begins, and the order is that of the directory listing
RootOrders(w, fs, st) == FileOrders(w, fs, st, "")

\* the directories below the root: those that hold a file and those left empty
Dirs(w, fs, st) ==
    w.dirs \cup {p[1] : p \in {q \in FilePaths \cup StorePaths :
                                  OnDisk(q, fs, st).exists /\ q[1] # ""}}

\* the directories os.walk is to enter once the files of the root are done, in
\* the orders it can take them: those its listing of the root found (the ones
\* left out are entered too, and every file of theirs is passed over)
DirOrders(w, fs, st) == Perms({dir \in Dirs(w, fs, st) : ~SkippedDir(w, dir)})

\* the files of the directories below the root (each holds one file) in the
\* orders os.walk can yield them: it scans a directory as it comes to it
BelowOrders(w, fs, st) == Perms({p \in Listed(w, fs, st) : p[1] # ""})

\* the files a walk of an unchanging workspace visits, in the orders os.walk can
\* yield them: top down, the files of the root first
WalkOrders(w, fs, st) ==
    { r \o d : r \in RootOrders(w, fs, st), d \in BelowOrders(w, fs, st) }

\* what build_index makes of one file: every chunk is new
FullFile(p, lines, mtime) == Tagged(ChunkFile(p, lines, mtime), TRUE)

\* carrying forward whatever is indexed, the modification time not compared
UnchangedIfIndexed(existing, rel, current_mtime) == rel \in IndexedPaths(existing)

\* the comparison of the modification times turned round
UnchangedUnlessOlder(existing, rel, current_mtime) ==
    /\ rel \in IndexedPaths(existing)
    /\ current_mtime >= IndexedMtime(existing, rel)

\* whether build_index_incremental carries the chunks of rel forward
Unchanged(existing, rel, current_mtime) ==
    /\ rel \in IndexedPaths(existing)
    /\ current_mtime <= IndexedMtime(existing, rel)

\* the step of the incremental walk without the continue after carrying chunks
\* forward
IncrementalFileKeepsOld(existing, p, lines, mtime) ==
    (IF Unchanged(existing, p, mtime) THEN Tagged(SelectPath(existing, p), FALSE) ELSE <<>>)
    \o Tagged(ChunkFile(p, lines, mtime), TRUE)

\* what build_index_incremental makes of one file, given the loaded chunks
\* existing: its chunks carried forward, or new chunks of its lines
IncrementalFile(existing, p, lines, mtime) ==
    IF Unchanged(existing, p, mtime) THEN Tagged(SelectPath(existing, p), FALSE)
    ELSE Tagged(ChunkFile(p, lines, mtime), TRUE)

\* the walk of build_index over the files of order, none changing meanwhile
RECURSIVE WalkFull(_, _, _)
WalkFull(fs, st, order) ==
    IF order = <<>> THEN <<>>
    ELSE LET f == OnDisk(Head(order), fs, st)
         IN  FullFile(Head(order), f.lines, f.mtime) \o WalkFull(fs, st, Tail(order))

\* the walk of build_index_incremental over the files of order, none changing
\* meanwhile
RECURSIVE WalkIncremental(_, _, _, _)
WalkIncremental(fs, st, existing, order) ==
    IF order = <<>> THEN <<>>
    ELSE LET f == OnDisk(Head(order), fs, st)
         IN  IncrementalFile(existing, Head(order), f.lines, f.mtime)
             \o WalkIncremental(fs, st, existing, Tail(order))

NewChunks(walk) ==
    LET sel == SelectSeq(walk, LAMBDA w : w.isNew)
    IN  [i \in 1..Len(sel) |-> sel[i].c]

Texts(chunks) == [i \in 1..Len(chunks) |-> chunks[i].text]

NewBefore(walk, i) == Cardinality({j \in 1..i : walk[j].isNew})

\* for chunk, vec in zip(new chunks, embeddings): chunk.embedding = vec
ZipEmbeddings(walk, vectors) ==
    [i \in 1..Len(walk) |->
        IF walk[i].isNew /\ NewBefore(walk, i) <= Len(vectors)
        THEN [walk[i].c EXCEPT !.embedding = vectors[NewBefore(walk, i)]]
        ELSE walk[i].c]

\* the chunks a build saves once its walk is made
WithEmbeddings(walk, drop) == ZipEmbeddings(walk, Embed(Texts(NewChunks(walk)), drop))

\* the chunks build_index saves
BuiltIndex(fs, st, order, drop) == WithEmbeddings(WalkFull(fs, st, order), drop)

\* the chunks build_index_incremental saves to store s
BuiltIncremental(fs, st, s, order, drop) ==
    WithEmbeddings(WalkIncremental(fs, st, Load(st, s), order), drop)

----------------------------------------------------------------------------
(* Retrieval *)

Max(a, b) == IF a >= b THEN a ELSE b

Abs(x) == IF x < 0 THEN -x ELSE x

RECURSIVE GCD(_, _)
GCD(a, b) == IF b = 0 THEN a ELSE GCD(b, a % b)

RECURSIVE DotFrom(_, _, _)
DotFrom(a, b, i) == IF i > Len(a) THEN 0 ELSE a[i] * b[i] + DotFrom(a, b, i + 1)

Dot(a, b) == DotFrom(a, b, 1)

\* A score is kept exactly, as the fraction <<n, d>>, d > 0, in lowest terms, of
\* the cosine times its absolute value: dot * |dot| / (|a|^2 * |b|^2).  It is
\* 0, 1 or -1 where the cosine is, and orders as the cosine does.
\* The floats of CosineSimilarityDouble order differently only where two
\* parallel vectors round apart ((1, 1) and (3, 3)); the specifications that
\* rank chunks hold texts of at most MaxLines lines, whose vectors with a blank
\* line counted are not parallel to one another, so there both orders agree.
Fraction(n, d) == LET g == GCD(Abs(n), d) IN <<n \div g, d \div g>>

ScoreLess(x, y) == x[1] * y[2] < y[1] * x[2]

cosine_similarity(a, b) ==
    IF a = <<>> \/ b = <<>> \/ Len(a) # Len(b) THEN ZeroScore
    ELSE LET dot == Dot(a, b)
             na2 == Dot(a, a)
             nb2 == Dot(b, b)
         IN  IF na2 = 0 \/ nb2 = 0 THEN ZeroScore
             ELSE Fraction(dot * Abs(dot), na2 * nb2)

\* for chunk in chunks: chunk.score = cosine_similarity(qv, chunk.embedding)
Scored(chunks, qv) ==
    [i \in 1..Len(chunks) |->
        [chunks[i] EXCEPT !.score = cosine_similarity(qv, chunks[i].embedding)]]

\* c goes before the first chunk of sorted that scores less than it
RECURSIVE InsertDesc(_, _)
InsertDesc(c, sorted) ==
    IF sorted = <<>> THEN <<c>>
    ELSE IF ScoreLess(Head(sorted).score, c.score) THEN <<c>> \o sorted
    ELSE <<Head(sorted)>> \o InsertDesc(c, Tail(sorted))

RECURSIVE SortFrom(_, _, _)
SortFrom(chunks, i, sorted) ==
    IF i > Len(chunks) THEN sorted
    ELSE SortFrom(chunks, i + 1, InsertDesc(chunks[i], sorted))

RECURSIVE InsertAsc(_, _)
InsertAsc(c, sorted) ==
    IF sorted = <<>> THEN <<c>>
    ELSE IF ScoreLess(c.score, Head(sorted).score) THEN <<c>> \o sorted
    ELSE <<Head(sorted)>> \o InsertAsc(c, Tail(sorted))

RECURSIVE SortAscFrom(_, _, _)
SortAscFrom(chunks, i, sorted) ==
    IF i > Len(chunks) THEN sorted
    ELSE SortAscFrom(chunks, i + 1, InsertAsc(chunks[i], sorted))

\* sorted(chunks, key=lambda c: c.score)[::-1]: equal scores come out reversed
RankedByReversal(chunks) ==
    LET asc == SortAscFrom(chunks, 1, <<>>)
    IN  [i \in 1..Len(asc) |-> asc[Len(asc) + 1 - i]]

\* sorted(chunks, key=lambda c: c.score, reverse=True)
Ranked(chunks) == SortFrom(chunks, 1, <<>>)

\* ranked[:top_k], a negative top_k counting from the end
SliceTo(ranked, top_k) ==
    IF top_k >= 0 THEN SubSeq(ranked, 1, Min(top_k, Len(ranked)))
    ELSE SubSeq(ranked, 1, Max(Len(ranked) + top_k, 0))

\* Retriever.retrieve once _maybe_load_index has given chunks and embed([query])
\* has given query_vecs
Retrieve(chunks, query_vecs, top_k) ==
    IF query_vecs = <<>> THEN <<>>
    ELSE SliceTo(Ranked(Scored(chunks, query_vecs[1])), top_k)

----------------------------------------------------------------------------
(* Staleness check *)

max_samples == 50

\* the sets random.sample can leave in files_to_check
SampleChoices(chunks, maxSamples) ==
    IF Cardinality(IndexedPaths(chunks)) > maxSamples
    THEN {S \in SUBSET IndexedPaths(chunks) : Cardinality(S) = maxSamples}
    ELSE {IndexedPaths(chunks)}

\* the paths of chunks[i..] not in seen, each once, in the order the chunks
\* first name them
RECURSIVE FirstPaths(_, _, _)
FirstPaths(chunks, i, seen) ==
    IF i > Len(chunks) THEN <<>>
    ELSE IF chunks[i].path \in seen THEN FirstPaths(chunks, i + 1, seen)
    ELSE <<chunks[i].path>> \o FirstPaths(chunks, i + 1, seen \cup {chunks[i].path})

\* files_to_check in the orders the loop can take it: the files as the chunks
\* name them, or what random.sample draws of them
CheckOrders(chunks, maxSamples) ==
    IF Cardinality(IndexedPaths(chunks)) > maxSamples
    THEN UNION {Perms(S) : S \in SampleChoices(chunks, maxSamples)}
    ELSE {FirstPaths(chunks, 1, {})}

\* the test with >= for >: a file as old as its index entry counts as modified
IsNewerOrEqual(chunks, p, mtime) == mtime >= IndexedMtime(chunks, p)

\* os.path.getmtime(full_path) > indexed_mtime
IsNewer(chunks, p, mtime) == mtime > IndexedMtime(chunks, p)

----------------------------------------------------------------------------
(* Observations of the application's calls *)

NoPath == <<>>

NoStartup == [ran |-> FALSE, returned |-> "none", path |-> NoPath, stale |-> FALSE,
              attempted |-> FALSE, saved |-> FALSE]

NoRag == [ran |-> FALSE, status |-> "none", path |-> NoPath, query |-> <<>>, top_k |-> 0,
          vector |-> FALSE, loaded |-> <<>>, result |-> <<>>]

NoProbe == [ran |-> FALSE, max_samples |-> 0, sample |-> {}, result |-> FALSE,
            raised |-> FALSE]

NoTool == [ran |-> FALSE]

NoObs == [op |-> "none"]

NoWriters == <<>>

NoBuild == [op |-> "none"]

----------------------------------------------------------------------------
(* State machine of one workspace and the index at get_rag_index_path *)

PathA == <<"", "a", ".py">>

\* contents a user file can have: a.py any lines, b.md lines of text only
ContentsOf(p) ==
    IF p = PathA THEN {l \in Contents : Len(l) % ChunkLines <= MaxTail}
    ELSE {<<Word>>}

\* the directories the user files lie in, below the root
UserDirs == {p[1] : p \in UserPaths} \ {""}

\* the workspace the program is started in; a directory without its file can
\* be there, empty
Init ==
    /\ tool = NoTool
    /\ obs = NoObs
    /\ build = NoBuild
    /\ writers = NoWriters
    /\ \E user \in [UserPaths -> {NoFile} \cup
                    {[exists |-> TRUE, lines |-> l, mtime |-> 1] : l \in Contents}] :
          /\ \A p \in UserPaths : user[p].exists => user[p].lines \in ContentsOf(p)
          /\ files = [p \in FilePaths |-> IF p \in UserPaths THEN user[p] ELSE NoFile]
          /\ \E at \in RootNames, empty \in SUBSET UserDirs :
                /\ \A p \in UserPaths : user[p].exists => p[1] \notin empty
                /\ site = [PlainSite EXCEPT !.at = at, !.dirs = empty]
    /\ store = [s \in StorePaths |-> NoIndexFile]
    /\ now = 1
    /\ edits = 0
    /\ saves = 0
    /\ lastOp = "none"
    /\ pre = NoStore
    /\ fresh = <<>>
    /\ incRuns = 0
    /\ startup = NoStartup
    /\ rag = NoRag
    /\ probe = NoProbe

\* a call under way is no longer a call on an unchanging workspace
Overlapped ==
    /\ build' = IF build.op = "none" THEN build ELSE [build EXCEPT !.quiet = FALSE]
    /\ UNCHANGED <<tool, obs, writers>>

\* the workspace once file p is written: its directory holds a file (the
\* directory is made with the file when it was not there)
WithFile(w, p) == [w EXCEPT !.dirs = @ \ {p[1]}]

\* the workspace once file p, the one file of its directory, is deleted: the
\* directory stays
WithoutFile(w, p) == [w EXCEPT !.dirs = IF p[1] = "" THEN @ ELSE @ \cup {p[1]}]

Edited(op) ==
    /\ edits' = edits + 1
    /\ lastOp' = op
    /\ pre' = NoStore
    /\ fresh' = <<>>
    /\ incRuns' = 0

\* the user creates or rewrites a file, at the current clock reading or a later one
WriteFile ==
    /\ Overlapped
    /\ edits < MaxEdits
    /\ \E p \in UserPaths, t \in {now, now + 1} :
        \E lines \in ContentsOf(p) :
            /\ files[p] # [exists |-> TRUE, lines |-> lines, mtime |-> t]
            /\ files' = [files EXCEPT ![p] = [exists |-> TRUE, lines |-> lines, mtime |-> t]]
            /\ site' = WithFile(site, p)
            /\ now' = t
            /\ Edited("write")
            /\ UNCHANGED <<store, saves, startup, rag, probe>>

\* the user deletes a file
DeleteFile ==
    /\ Overlapped
    /\ edits < MaxEdits
    /\ \E p \in UserPaths :
        /\ files[p].exists
        /\ files' = [files EXCEPT ![p] = NoFile]
        /\ site' = WithoutFile(site, p)
        /\ Edited("delete")
        /\ UNCHANGED <<store, now, saves, startup, rag, probe>>

\* the service answers every text, or has no parseable vector for the first
DropChoices(walk) == {d \in {0, 1} : d <= Len(NewChunks(walk))}

\* a mutation of StoreAfterBuild: the chunks are saved as walked, not yet
\* embedded, before the embed call
StoreAfterBuildSavingFirst(st, s, walk, raised, drop, t) ==
    IF raised THEN Save(st, s, ZipEmbeddings(walk, <<>>), t)
    ELSE Save(st, s, WithEmbeddings(walk, drop), t)

\* the index file when a build ends: self.store.save(chunks) is reached only
\* when embed has returned
StoreAfterBuild(st, s, walk, raised, drop, t) ==
    IF raised THEN st ELSE Save(st, s, WithEmbeddings(walk, drop), t)

\* a build called on its own, by no call of the application
Direct == [name |-> "none"]

\* a build as it begins, for the call that runs it, on the store at s: the
\* index it found, the files of the root os.walk has listed, in order, and the
\* directories below the root that listing found, in the order os.walk will
\* enter them; then, file by file, the modification time read and the lines
\* read.  quiet: no user edit has fallen inside the call so far
Begun(op, call, s, found, order, dirs, quiet) ==
    [op |-> op, call |-> call, s |-> s, found |-> found, todo |-> order, dirs |-> dirs,
     stage |-> "stat", mtime |-> 0, walk |-> <<>>, quiet |-> quiet]

\* a build whose os.walk has not listed the root yet: build_index_incremental
\* has loaded the index, or the call that runs the build has
Loaded(op, call, s, found, quiet) ==
    [Begun(op, call, s, found, <<>>, <<>>, quiet) EXCEPT !.stage = "list"]

\* the build under way is at its walk
Walks == build.op \in {"build_index", "build_index_incremental"}

\* the steps of a call but the last leave the index and the user's files alone
Walking == UNCHANGED <<files, store, now, edits, saves, lastOp, pre, fresh, incRuns,
                       startup, rag, probe, site, tool, obs, writers>>

\* the name a build is recorded under when it raised
Raised(op) ==
    IF op = "build_index" THEN "build_index raised" ELSE "build_index_incremental raised"

\* how a build called on its own ends: recorded under name, with the index it
\* found and the chunks it made
Ended(name) ==
    /\ lastOp' = name
    /\ pre' = build.found
    /\ fresh' = NewChunks(build.walk)
    /\ incRuns' = IF name = "build_index_incremental" THEN Min(incRuns + 1, 2) ELSE 0
    /\ build' = NoBuild
    /\ UNCHANGED <<startup, rag, probe, obs>>

Observed(op) ==
    /\ lastOp' = op
    /\ pre' = NoStore
    /\ fresh' = <<>>
    /\ incRuns' = 0

\* the name a call of the application is recorded under: its own when no user
\* edit fell inside it
Recorded(name, quiet) == IF quiet THEN name ELSE "call overlapped"

\* what ensure_rag_index_built returned, whether it found the index stale,
\* whether it began a build (walk and embed call) and whether the build wrote
\* the index
Started(quiet, returned, stale, attempted, saved) ==
    /\ Observed(Recorded("ensure_rag_index_built", quiet))
    /\ startup' = [ran |-> TRUE, returned |-> returned, path |-> get_rag_index_path,
                   stale |-> stale, attempted |-> attempted, saved |-> saved]
    /\ rag' = NoRag
    /\ probe' = NoProbe
    /\ build' = NoBuild
    /\ UNCHANGED obs

\* what _run_rag returned, the index it used, what retrieve loaded and returned
Searched(status, path, query, top_k, vector, loaded, result) ==
    rag' = [ran |-> TRUE, status |-> status, path |-> path, query |-> query, top_k |-> top_k,
            vector |-> vector, loaded |-> loaded, result |-> result]

\* a _run_rag call made on its own ends
RanRag(quiet) ==
    /\ Observed(Recorded("_run_rag", quiet))
    /\ probe' = NoProbe
    /\ build' = NoBuild
    /\ UNCHANGED <<startup, obs>>

\* _run_rag once retrieve holds chunks: the request for the query's vector
\* fails, or it is answered and the chunks are scored and ranked
RagAnswers(s, query, top_k, chunks) ==
    \/ Searched("RAG retrieval failed", s, query, 0, FALSE, <<>>, <<>>)
    \/ \E qdrop \in {0, 1} :
         LET query_vecs == Embed(<<query>>, qdrop)
             result == Retrieve(chunks, query_vecs, top_k)
         IN  Searched(IF result = <<>> THEN "RAG completed (no matches)." ELSE "RAG completed.",
                      s, query, top_k, query_vecs # <<>>, chunks, result)

\* what a staleness probe found: stale or not, or that it raised
Probed(quiet, n, sample, result, raised) ==
    /\ Observed(Recorded("_is_index_stale", quiet))
    /\ probe' = [ran |-> TRUE, max_samples |-> n, sample |-> sample,
                 result |-> result, raised |-> raised]
    /\ rag' = NoRag
    /\ build' = NoBuild
    /\ UNCHANGED <<startup, obs>>

\* what a retrieve call did: whether build_index ran, the texts handed to each
\* embed call, whether the call raised, the chunks retrieve held before scoring
\* them, whether the query got a vector, and what was returned
Retrieved(query, top_k, built, embeds, raised, chunks, vector, result) ==
    obs' = [op |-> "retrieve", query |-> query, top_k |-> top_k, built |-> built,
            embeds |-> embeds, raised |-> raised, chunks |-> chunks, vector |-> vector,
            result |-> result]

\* the answers the service gives the query text: no answer (the request fails),
\* an answer without a parseable vector, or a vector
QueryAnswers == {"fail", "none", "vector"}

\* a mutation of StoreAfterRetrieve: the chunks are saved with their scores
StoreAfterRetrieveKeepingScores(st, s, scored, t) == Save(st, s, scored, t)

\* the index file when retrieve returns: as _maybe_load_index left it, not
\* touched after the chunks are scored
StoreAfterRetrieve(st, s, scored, t) == st

\* retrieve once _maybe_load_index has given chunks, the index file being st
\* then: the query is embedded, the chunks scored and ranked
Scores(st, s, t, query, top_k, ran, texts, chunks) ==
    \E answer \in QueryAnswers :
        LET query_vecs == Embed(<<query>>, IF answer = "none" THEN 1 ELSE 0)
        IN  /\ store' = StoreAfterRetrieve(st, s, IF answer = "vector"
                                                  THEN Scored(chunks, query_vecs[1])
                                                  ELSE chunks, t)
            /\ Retrieved(query, top_k, ran, texts \o <<<<query>>>>, answer = "fail", chunks,
                         answer = "vector",
                         IF answer = "fail" THEN <<>> ELSE Retrieve(chunks, query_vecs, top_k))

\* a call of the application that holds the chunks of its index, given by
\* store.load() or by the build_index that has saved them (built); the rest of
\* the call is still to come
Holding(call, s, found, walk, built, chunks, quiet) ==
    [op |-> "holding", call |-> call, s |-> s, found |-> found, walk |-> walk,
     built |-> built, chunks |-> chunks, quiet |-> quiet]

\* search_codebase_tool once _run_rag has returned r to it
AfterRag(by, r, quiet) ==
    [by EXCEPT !.stage = "search", !.quiet = quiet, !.rag = r,
               !.failed = @ \cup (IF r.status = "RAG retrieval failed" THEN {"rag"} ELSE {})]

\* _run_rag returns: called on its own it is recorded, called by
\* search_codebase_tool (c.by) that call goes on
RagEnds(c, quiet) ==
    IF c.by.op = "none" THEN RanRag(quiet)
    ELSE /\ build' = AfterRag(c.by, rag', quiet)
         /\ UNCHANGED <<lastOp, pre, fresh, incRuns, startup, probe, obs>>

\* the build under way ends.  outcome is "saved" (embed answered, the vectors
\* are zipped on and the chunks saved), "embed raised" or "file gone"
\* (os.path.getmtime or open raised FileNotFoundError); built are the chunks the
\* build holds, after is the index file it leaves.  A build called on its own is
\* recorded; a build that has saved returns its chunks to the call that runs it,
\* which goes on (the save is what ran last); an exception ends that call with
\* the build
BuildEnds(outcome, built, after) ==
    LET c == build.call
    IN  CASE c.name = "none" ->
                /\ store' = after
                /\ Ended(IF outcome = "embed raised" THEN Raised(build.op)
                         ELSE IF outcome = "saved" /\ build.quiet THEN build.op
                         ELSE "build overlapped")
          [] c.name # "none" /\ outcome = "saved" ->
                /\ store' = after
                /\ lastOp' = "save"
                /\ build' = Holding(c, build.s, build.found, build.walk, TRUE, built,
                                    build.quiet)
                /\ UNCHANGED <<pre, fresh, incRuns, startup, rag, probe, obs>>
          [] c.name = "ensure_rag_index_built" /\ outcome # "saved" ->
                \* tools.py 329-336: the first build is inside try/except, the
                \* update of a stale index is not
                /\ store' = after
                /\ Started(build.quiet, IF c.stale THEN "raised" ELSE "False",
                           c.stale, TRUE, FALSE)
          [] c.name = "_run_rag" /\ outcome # "saved" ->
                \* tools.py 212-227: every exception is the failure status
                /\ store' = after
                /\ Searched("RAG retrieval failed", build.s, c.query, 0, FALSE, <<>>, <<>>)
                /\ RagEnds(c, build.quiet)
          [] c.name = "retrieve" /\ outcome # "saved" ->
                /\ store' = after
                /\ lastOp' = "retrieve"
                /\ pre' = build.found
                /\ fresh' = NewChunks(build.walk)
                /\ incRuns' = 0
                /\ build' = NoBuild
                /\ UNCHANGED <<startup, rag, probe>>
                /\ Retrieved(c.query, c.top_k, TRUE,
                             IF outcome = "embed raised"
                             THEN <<Texts(NewChunks(build.walk))>> ELSE <<>>,
                             TRUE, <<>>, FALSE, <<>>)

\* the call that holds its chunks goes on to its end: ensure_rag_index_built
\* returns True; retrieve asks for the query's vector, scores the chunks and
\* returns, and _run_rag renders what retrieve returned
CallEnds ==
    /\ build.op = "holding"
    /\ UNCHANGED <<files, now, edits, saves, site, tool, writers>>
    /\ LET c == build.call
       IN  CASE c.name = "ensure_rag_index_built" ->
                   /\ Started(build.quiet, "True", c.stale, TRUE, TRUE)
                   /\ UNCHANGED store
             [] c.name = "_run_rag" ->
                   /\ RagAnswers(build.s, c.query, c.top_k, build.chunks)
                   /\ RagEnds(c, build.quiet)
                   /\ UNCHANGED store
             [] c.name = "retrieve" ->
                   /\ lastOp' = "retrieve"
                   /\ pre' = build.found
                   /\ fresh' = NewChunks(build.walk)
                   /\ incRuns' = 0
                   /\ build' = NoBuild
                   /\ UNCHANGED <<startup, rag, probe>>
                   /\ Scores(store, build.s, now, c.query, c.top_k, build.built,
                             IF build.built THEN <<Texts(NewChunks(build.walk))>> ELSE <<>>,
                             build.chunks)

\* a file the walk has listed is gone when its turn comes: os.path.getmtime or
\* open raises FileNotFoundError, the build ends and saves nothing
WalkRaises ==
    /\ BuildEnds("file gone", <<>>, store)
    /\ saves' = saves + 1
    /\ UNCHANGED <<files, now, edits, site, tool, writers>>

\* the builds of a behaviour are followed up to MaxSaves of them
Followed == saves < MaxSaves /\ obs = NoObs

\* Retriever.build_index on the store at get_rag_index_path begins: os.walk
\* lists the root
BuildIndex ==
    /\ build.op = "none"
    /\ Followed
    /\ \E order \in RootOrders(site, files, store), dirs \in DirOrders(site, files, store) :
          build' = Begun("build_index", Direct, get_rag_index_path,
                         Found(store, get_rag_index_path), order, dirs, TRUE)
    /\ Walking

\* Retriever.build_index_incremental on the store at get_rag_index_path begins:
\* the index is loaded
BuildIndexIncremental ==
    /\ build.op = "none"
    /\ Followed
    /\ build' = Loaded("build_index_incremental", Direct, get_rag_index_path,
                       Found(store, get_rag_index_path), TRUE)
    /\ Walking

\* os.walk begins: it lists the root, the files it is to yield and the
\* directories it is to enter
WalkList ==
    /\ Walks
    /\ build.stage = "list"
    /\ \E order \in RootOrders(site, files, store), dirs \in DirOrders(site, files, store) :
          build' = [build EXCEPT !.todo = order, !.dirs = dirs, !.stage = "stat"]
    /\ Walking

\* the files yielded so far are done: os.walk enters the next of the
\* directories its listing of the root found, and yields the files it holds now
WalkEnter ==
    /\ Walks
    /\ build.stage = "stat"
    /\ build.todo = <<>>
    /\ build.dirs # <<>>
    /\ \E order \in FileOrders(site, files, store, Head(build.dirs)) :
          build' = [build EXCEPT !.todo = order, !.dirs = Tail(@)]
    /\ Walking

\* a walk b once os.path.getmtime of its next file p has read the time of f:
\* build_index_incremental carries the chunks of an unchanged file forward and
\* goes on to the file after it
AfterStat(b, p, f) ==
    IF b.op = "build_index_incremental" /\ Unchanged(b.found.chunks, p, f.mtime)
    THEN [b EXCEPT !.todo = Tail(@),
                   !.walk = @ \o IncrementalFile(b.found.chunks, p, f.lines, f.mtime)]
    ELSE [b EXCEPT !.stage = "read", !.mtime = f.mtime]

\* a walk b once open and readlines have read f, the file p whose modification
\* time it holds, and its lines are chunked
AfterRead(b, p, f) ==
    [b EXCEPT !.todo = Tail(@),
              !.stage = "stat",
              !.mtime = 0,
              !.walk = @ \o (IF b.op = "build_index"
                             THEN FullFile(p, f.lines, b.mtime)
                             ELSE IncrementalFile(b.found.chunks, p, f.lines, b.mtime))]

\* os.path.getmtime of the next file
WalkStat ==
    /\ Walks
    /\ build.todo # <<>>
    /\ build.stage = "stat"
    /\ LET p == Head(build.todo)
           f == OnDisk(p, files, store)
       IN  IF ~f.exists THEN WalkRaises
           ELSE build' = AfterStat(build, p, f) /\ Walking

\* open and readlines of the file whose modification time was read, and the
\* chunking of its lines
WalkRead ==
    /\ Walks
    /\ build.todo # <<>>
    /\ build.stage = "read"
    /\ LET p == Head(build.todo)
           f == OnDisk(p, files, store)
       IN  IF ~f.exists THEN WalkRaises
           ELSE build' = AfterRead(build, p, f) /\ Walking

\* the clock readings a save can take: a build called on its own saves at the
\* current reading or a later one, a call of the application at a later one
SaveTimes(call) == IF call = Direct THEN {now, now + 1} ELSE {now + 1}

\* the walk is over: embed answers, the vectors are zipped on and
\* self.store.save(chunks) writes the index file
BuildSaves ==
    /\ Walks
    /\ build.stage = "stat"
    /\ build.todo = <<>>
    /\ build.dirs = <<>>
    /\ \E drop \in DropChoices(build.walk), t \in SaveTimes(build.call) :
        /\ BuildEnds("saved", WithEmbeddings(build.walk, drop),
                     StoreAfterBuild(store, build.s, build.walk, FALSE, drop, t))
        /\ now' = t
    /\ saves' = saves + 1
    /\ site' = WithFile(site, build.s)
    /\ UNCHANGED <<files, edits, tool, writers>>

\* the walk is over and the embed call raises (transport failure) at a request:
\* nothing is saved
BuildFails ==
    /\ Walks
    /\ build.stage = "stat"
    /\ build.todo = <<>>
    /\ build.dirs = <<>>
    /\ NewChunks(build.walk) # <<>>
    /\ BuildEnds("embed raised", <<>>,
                 StoreAfterBuild(store, build.s, build.walk, TRUE, 0, now))
    /\ saves' = saves + 1
    /\ UNCHANGED <<files, now, edits, site, tool, writers>>

Next ==
    \/ WriteFile
    \/ DeleteFile
    \/ BuildIndex
    \/ BuildIndexIncremental
    \/ WalkList
    \/ WalkEnter
    \/ WalkStat
    \/ WalkRead
    \/ BuildSaves
    \/ BuildFails

Spec == Init /\ [][Next]_vars

----------------------------------------------------------------------------
(* Inputs of the calls *)

QueryTexts == { <<>>, <<Word>> }

TopKDefault == 6

\* values _load_rag_settings can give top_k: int(rag_top_k) of the workspace
\* configuration, 6 without one
TopKs == {-1, 0, 1, TopKDefault}

\* user files of one line
OneLineFiles == {NoFile, [exists |-> TRUE, lines |-> <<Word>>, mtime |-> 1]}


----------------------------------------------------------------------------
(* State machine of the application: startup, searches and user edits.     *)
(* Every write happens at a later clock reading than the writes before it; *)
(* a search or a staleness probe is followed by a startup or an edit.  A   *)
(* call goes step by step, one look at the disk a step, and the user's     *)
(* edits can fall between its steps.                                       *)

FileCeiling == 1000

\* len(list(Path(workspace_root).rglob("*.py")))
PyFileCount(fs, w) ==
    Cardinality({p \in FilePaths : fs[p].exists /\ p[3] = ".py"}) + w.empty_py

\* contents of the user files in the application's runs: text from the first line on
AppContentsOf(p) ==
    IF p = PathA THEN {l \in Contents : l # <<>> /\ Len(l) <= MaxLines /\ l[1] = Word}
    ELSE {<<Word>>}

InitApp ==
    /\ site = PlainSite
    /\ tool = NoTool
    /\ obs = NoObs
    /\ build = NoBuild
    /\ writers = NoWriters
    /\ \E user \in [UserPaths -> {NoFile} \cup
                    {[exists |-> TRUE, lines |-> l, mtime |-> 1] : l \in Contents}] :
          /\ \A p \in UserPaths : user[p].exists => user[p].lines \in AppContentsOf(p)
          /\ files = [p \in FilePaths |-> IF p \in UserPaths THEN user[p] ELSE NoFile]
    /\ store = [s \in StorePaths |-> NoIndexFile]
    /\ now = 1
    /\ edits = 0
    /\ saves = 0
    /\ lastOp = "none"
    /\ pre = NoStore
    /\ fresh = <<>>
    /\ incRuns = 0
    /\ startup = NoStartup
    /\ rag = NoRag
    /\ probe = NoProbe

UserWrites ==
    /\ Overlapped
    /\ edits < MaxEdits
    /\ \E p \in UserPaths :
       \E lines \in AppContentsOf(p) :
        /\ files' = [files EXCEPT ![p] = [exists |-> TRUE, lines |-> lines, mtime |-> now + 1]]
        /\ site' = WithFile(site, p)
        /\ now' = now + 1
    /\ Edited("write")
    /\ rag' = NoRag
    /\ probe' = NoProbe
    /\ UNCHANGED <<store, saves, startup>>

UserDeletes ==
    /\ Overlapped
    /\ edits < MaxEdits
    /\ \E p \in UserPaths :
        /\ files[p].exists
        /\ files' = [files EXCEPT ![p] = NoFile]
        /\ site' = WithoutFile(site, p)
    /\ Edited("delete")
    /\ rag' = NoRag
    /\ probe' = NoProbe
    /\ UNCHANGED <<store, now, saves, startup>>

\* a call that ends without a build leaves the disk and the clock alone
NothingBuilt == UNCHANGED <<files, store, now, edits, saves, tool, writers>>

\* a staleness check as it begins, for the call that runs it: the chunks it
\* was given and files_to_check in order; then, file by file, os.path.exists
\* and os.path.getmtime
Checking(call, chunks, todo) ==
    [op |-> "_is_index_stale", call |-> call, chunks |-> chunks, todo |-> todo,
     stage |-> "exists", quiet |-> TRUE]

\* ensure_rag_index_built has found its index stale and is about to call
\* _update_rag_index_incremental
Updating(call, quiet) ==
    [op |-> "_update_rag_index_incremental", call |-> call, quiet |-> quiet]

\* ensure_rag_index_built has counted the .py files and is about to construct
\* its store and load the index
Counted == [op |-> "ensure_rag_index_built", quiet |-> TRUE]

\* ensure_rag_index_built(workspace_root, rag_meta) begins: the settings, then
\* the count of the .py files rglob finds, and False for more than the ceiling
EnsureRagIndexBuilt ==
    /\ build.op = "none"
    /\ saves < MaxSaves
    /\ NothingBuilt
    /\ UNCHANGED site
    /\ \E enabled \in BOOLEAN :
        IF ~enabled \/ PyFileCount(files, site) > FileCeiling
        THEN Started(TRUE, "False", FALSE, FALSE, FALSE)
        ELSE /\ UNCHANGED <<lastOp, pre, fresh, incRuns, startup, rag, probe, obs>>
             /\ build' = Counted

\* the staleness check ends with result: "True", "False", or "raised" when
\* os.path.getmtime raised FileNotFoundError; ensure_rag_index_built goes on to
\* the update of a stale index, returns True for a current one, and does not
\* catch the exception
Checked(result) ==
    LET c == build.call
    IN  IF c.name = "ensure_rag_index_built"
        THEN IF result = "True"
             THEN /\ build' = Updating([name |-> "ensure_rag_index_built", stale |-> TRUE],
                                       build.quiet)
                  /\ Walking
             ELSE /\ Started(build.quiet, IF result = "False" THEN "True" ELSE "raised",
                             FALSE, FALSE, FALSE)
                  /\ NothingBuilt
                  /\ UNCHANGED site
        ELSE /\ Probed(build.quiet, c.max_samples, c.sample, result = "True",
                       result = "raised")
             /\ NothingBuilt
             /\ UNCHANGED site

\* _is_index_stale at os.path.exists(full_path) of the next file to check: a
\* file that is gone makes the index stale
StaleExists ==
    /\ build.op = "_is_index_stale"
    /\ build.stage = "exists"
    /\ IF OnDisk(Head(build.todo), files, store).exists
       THEN /\ build' = [build EXCEPT !.stage = "getmtime"]
            /\ Walking
       ELSE Checked("True")

\* _is_index_stale at os.path.getmtime(full_path) of the file found to exist:
\* a file modified since it was indexed makes the index stale; after the last
\* file the index is current
StaleGetmtime ==
    /\ build.op = "_is_index_stale"
    /\ build.stage = "getmtime"
    /\ LET p == Head(build.todo)
           f == OnDisk(p, files, store)
       IN  IF ~f.exists THEN Checked("raised")
           ELSE IF IsNewer(build.chunks, p, f.mtime) THEN Checked("True")
           ELSE IF Tail(build.todo) = <<>> THEN Checked("False")
           ELSE /\ build' = [build EXCEPT !.todo = Tail(@), !.stage = "exists"]
                /\ Walking

\* _update_rag_index_incremental(workspace_root, store):
\* build_index_incremental begins, the index is loaded
UpdateRagIndexIncremental ==
    /\ build.op = "_update_rag_index_incremental"
    /\ build' = Loaded("build_index_incremental", build.call, get_rag_index_path,
                       Found(store, get_rag_index_path), build.quiet)
    /\ Walking

\* the workspace once SimpleVectorStore(index_path) is constructed:
\* os.makedirs of the directory of the index file, its parents with it
WithStoreAt(w, st, s) ==
    [w EXCEPT !.root = TRUE,
              !.dirs = IF s[1] = "" \/ st[s].exists THEN @ ELSE @ \cup {s[1]}]

\* ensure_rag_index_built once the files are counted: the store is
\* constructed and store.load() reads the index; with chunks loaded the
\* staleness check begins, files_to_check made, without the first build
EnsureLoads ==
    /\ build.op = "ensure_rag_index_built"
    /\ UNCHANGED <<files, store, now, edits, saves, lastOp, pre, fresh, incRuns,
                   startup, rag, probe, tool, obs, writers>>
    /\ LET s == get_rag_index_path
           found == Found(store, s)
       IN  /\ site' = WithStoreAt(site, store, s)
           /\ IF found.chunks # <<>>
              THEN \E todo \in CheckOrders(found.chunks, max_samples) :
                      build' = [Checking([name |-> "ensure_rag_index_built"],
                                         found.chunks, todo)
                                  EXCEPT !.quiet = build.quiet]
              ELSE build' = Loaded("build_index",
                                   [name |-> "ensure_rag_index_built", stale |-> FALSE],
                                   s, found, build.quiet)

\* _run_rag(query, workspace_root, rag_meta) with a query begins, on its own
\* or called by search_codebase_tool (by): the store is constructed, retrieve
\* loads the index; with chunks loaded the call holds them, without build_index
\* begins
RagBegins(by, query, top_k, quiet) ==
    LET s == IndexPathOfRunRag
        found == Found(store, s)
        call == [name |-> "_run_rag", query |-> query, top_k |-> top_k, by |-> by]
    IN  /\ site' = WithStoreAt(site, store, s)
        /\ IF found.chunks # <<>>
           THEN build' = Holding(call, s, found, <<>>, FALSE, found.chunks, quiet)
           ELSE /\ saves < MaxSaves
                /\ build' = Loaded("build_index", call, s, found, quiet)

\* _run_rag(query, workspace_root, rag_meta) called on its own begins; an
\* empty query is answered at once
RunRag ==
    /\ build.op = "none"
    /\ ~rag.ran /\ ~probe.ran
    /\ NothingBuilt
    /\ \E query \in QueryTexts, top_k \in TopKs :
        IF query = <<>>
        THEN /\ Searched("RAG skipped (empty query).", NoPath, query, 0, FALSE, <<>>, <<>>)
             /\ RanRag(TRUE)
             /\ UNCHANGED site
        ELSE /\ RagBegins(NoBuild, query, top_k, TRUE)
             /\ UNCHANGED <<lastOp, pre, fresh, incRuns, startup, rag, probe, obs>>

\* _is_index_stale(workspace_root, store.load(), max_samples) for a small
\* max_samples begins: files_to_check is made
CheckStale ==
    /\ build.op = "none"
    /\ ~rag.ran /\ ~probe.ran
    /\ Load(store, get_rag_index_path) # <<>>
    /\ Walking
    /\ \E n \in 1..MaxSamplesTried :
        \E todo \in CheckOrders(Load(store, get_rag_index_path), n) :
            build' = Checking([name |-> "_is_index_stale", max_samples |-> n,
                               sample |-> {todo[i] : i \in 1..Len(todo)}],
                              Load(store, get_rag_index_path), todo)

NextApp ==
    \/ UserWrites
    \/ UserDeletes
    \/ EnsureRagIndexBuilt
    \/ EnsureLoads
    \/ StaleExists
    \/ StaleGetmtime
    \/ UpdateRagIndexIncremental
    \/ RunRag
    \/ CheckStale
    \/ WalkList
    \/ WalkEnter
    \/ WalkStat
    \/ WalkRead
    \/ BuildSaves
    \/ BuildFails
    \/ CallEnds

SpecApp == InitApp /\ [][NextApp]_vars

----------------------------------------------------------------------------
(* State machine of one workspace whose index is built and searched:       *)
(* build_index, build_index_incremental and retrieve on one store          *)

\* a mutation of NeedsBuild: the build runs only when there is no index file
NeedsBuildIfNoFile(found) == ~found.exists

\* _maybe_load_index: if not chunks, build_index
NeedsBuild(found) == found.chunks = <<>>

\* Retriever.retrieve(query, top_k) on the store at get_rag_index_path begins:
\* _maybe_load_index loads the index; with chunks loaded the call holds them,
\* without build_index begins
RetrieveCall ==
    /\ obs = NoObs
    /\ build.op = "none"
    /\ Walking
    /\ \E query \in QueryTexts, top_k \in {1, TopKDefault} :
        LET s == get_rag_index_path
            found == Found(store, s)
            call == [name |-> "retrieve", query |-> query, top_k |-> top_k]
        IN  IF NeedsBuild(found)
            THEN /\ saves < MaxSaves
                 /\ build' = Loaded("build_index", call, s, found, TRUE)
            ELSE build' = Holding(call, s, found, <<>>, FALSE, found.chunks, TRUE)

\* a workspace of files of one line each
InitRetrieve ==
    /\ site = PlainSite
    /\ tool = NoTool
    /\ obs = NoObs
    /\ build = NoBuild
    /\ writers = NoWriters
    /\ \E user \in [UserPaths -> OneLineFiles] :
          files = [p \in FilePaths |-> IF p \in UserPaths THEN user[p] ELSE NoFile]
    /\ store = [s \in StorePaths |-> NoIndexFile]
    /\ now = 1
    /\ edits = 0
    /\ saves = 0
    /\ lastOp = "none"
    /\ pre = NoStore
    /\ fresh = <<>>
    /\ incRuns = 0
    /\ startup = NoStartup
    /\ rag = NoRag
    /\ probe = NoProbe

NextRetrieve ==
    \/ UserWrites
    \/ UserDeletes
    \/ BuildIndex
    \/ BuildIndexIncremental
    \/ WalkList
    \/ WalkEnter
    \/ WalkStat
    \/ WalkRead
    \/ BuildSaves
    \/ BuildFails
    \/ RetrieveCall
    \/ CallEnds

SpecRetrieve == InitRetrieve /\ [][NextRetrieve]_vars

----------------------------------------------------------------------------
(* Builds that run to their end and builds whose embed call raises *)

NextBuilds ==
    \/ UserWrites
    \/ UserDeletes
    \/ BuildIndex
    \/ BuildIndexIncremental
    \/ WalkList
    \/ WalkEnter
    \/ WalkStat
    \/ WalkRead
    \/ BuildSaves
    \/ BuildFails

\* a workspace of files of one line each, not yet indexed or with the index one
\* build_index has left at the first clock reading
InitBuilds ==
    /\ site = PlainSite
    /\ tool = NoTool
    /\ obs = NoObs
    /\ build = NoBuild
    /\ writers = NoWriters
    /\ \E user \in [UserPaths \cup {GithubPath} -> OneLineFiles], indexed \in BOOLEAN :
          /\ files = [p \in FilePaths |-> IF p \in DOMAIN user THEN user[p] ELSE NoFile]
          /\ LET none == [s \in StorePaths |-> NoIndexFile]
             IN  \E order \in WalkOrders(site, files, none) :
                    store = IF indexed
                            THEN Save(none, get_rag_index_path,
                                      BuiltIndex(files, none, order, 0), 1)
                            ELSE none
    /\ now = 1
    /\ edits = 0
    /\ saves = 0
    /\ lastOp = "none"
    /\ pre = NoStore
    /\ fresh = <<>>
    /\ incRuns = 0
    /\ startup = NoStartup
    /\ rag = NoRag
    /\ probe = NoProbe

SpecBuilds == InitBuilds /\ [][NextBuilds]_vars

----------------------------------------------------------------------------
(* State machine of the application in a workspace of many files *)

\* workspaces with as many empty files of one extension as the ceiling allows,
\* or one more
CrowdedSites ==
    { [PlainSite EXCEPT !.empty_py = FileCeiling],
      [PlainSite EXCEPT !.empty_py = FileCeiling + 1],
      [PlainSite EXCEPT !.empty_md = FileCeiling + 1] }

InitCeiling ==
    /\ site \in CrowdedSites
    /\ tool = NoTool
    /\ obs = NoObs
    /\ build = NoBuild
    /\ writers = NoWriters
    /\ \E user \in [UserPaths -> OneLineFiles] :
          files = [p \in FilePaths |-> IF p \in UserPaths THEN user[p] ELSE NoFile]
    /\ store = [s \in StorePaths |-> NoIndexFile]
    /\ now = 1
    /\ edits = 0
    /\ saves = 0
    /\ lastOp = "none"
    /\ pre = NoStore
    /\ fresh = <<>>
    /\ incRuns = 0
    /\ startup = NoStartup
    /\ rag = NoRag
    /\ probe = NoProbe

SpecCeiling == InitCeiling /\ [][NextApp]_vars

----------------------------------------------------------------------------
(* search_codebase_tool: the evidence bundle *)

\* A string is the sequence of its lines as split('\n') gives them, so the empty
\* string is one line without tokens; f.read() of a file of n lines each ending
\* in a newline is those lines and an empty last one.
EmptyStr == <<Blank>>

ReadAll(lines) == lines \o <<Blank>>

\* a.strip() of a string: empty lines at both ends go
RECURSIVE StripStr(_)
StripStr(str) ==
    IF Len(str) > 1 /\ Head(str) = Blank THEN StripStr(Tail(str))
    ELSE IF Len(str) > 1 /\ str[Len(str)] = Blank THEN StripStr(SubSeq(str, 1, Len(str) - 1))
    ELSE str

\* "\n\n".join of two strings
Joined(a, b) == a \o <<Blank>> \o b

ReadmeMaxLines == 50
OverviewMatches == 3
LookupMatches == 5
LinesPerMatch == 5
ListingPreview == 200
SnippetPreview == 200

Heading == <<"##", "x">>

\* line.strip().startswith('## ')
StartsH2(line) == Len(line) >= 2 /\ line[1] = "##"

\* the lines _truncate_readme keeps: up to max_lines, or up to the first H2
\* heading after the first line
RECURSIVE TruncatedFrom(_, _, _)
TruncatedFrom(lines, i, max_lines) ==
    IF i > Len(lines) \/ i - 1 >= max_lines \/ (i - 1 > 0 /\ StartsH2(lines[i]))
    THEN <<>>
    ELSE <<lines[i]>> \o TruncatedFrom(lines, i + 1, max_lines)

\* _truncate_readme(readme_content, max_lines)
TruncateReadme(readme_content, max_lines) ==
    IF readme_content = EmptyStr THEN EmptyStr
    ELSE LET truncated == TruncatedFrom(readme_content, 1, max_lines)
             more == Len(readme_content) - Len(truncated)
         IN  IF more > 0
             THEN truncated \o <<Blank, <<"... (README truncated,", ToString(more), "more lines)">>>>
             ELSE truncated

\* the character U+0060, which a string of this module cannot hold: a token of
\* its own in the line that has it
Backquote == "U+0060"

\* the strings that stand in for an empty section, tools.py 136-139 and 165-176,
\* and "No RAG matches found." of _run_rag
Placeholder ==
    [ search |-> <<<<"No direct matches found for the query.">>>>,
      rg |-> <<<<"ripgrep (", Backquote, "rg", Backquote,
                 ") is not installed, so code search is unavailable.">>>>,
      rag |-> <<<<"RAG disabled or no matches found.">>>>,
      rag_empty |-> <<<<"No RAG matches found.">>>>,
      status |-> "RAG retrieval attempted.",
      direct |-> <<<<"No direct file references found in the query.">>>>,
      readme |-> <<<<"No README file found.">>>>,
      readme_error |-> <<<<"Error reading README">>>>,
      listing |-> <<<<"No files were listed.">>>> ]

\* _limit_search_results(search_output, max_results)
LimitSearchResults(search_output, max_results) ==
    IF search_output = EmptyStr
       \/ \E i \in 1..Len(search_output) : <<search_output[i]>> = Placeholder.search
    THEN search_output
    ELSE IF Len(search_output) <= max_results * LinesPerMatch
    THEN search_output
    ELSE SubSeq(search_output, 1, max_results * LinesPerMatch)
         \o <<Blank, <<"... (showing top", ToString(max_results), "matches)">>>>

DefaultRagMeta == [enabled |-> TRUE, top_k |-> TopKDefault]

\* values int() reads as the numbers top_k takes in the model
NumberTokens == {ToString(n) : n \in 0..TopKDefault}

\* the lines of a config/memory.yaml that has a context profile with id
\* rag_profile, down to the key of its metadata; a line is written without its
\* indentation
ProfileLines ==
    << <<"memory:">>, <<"context_profiles:">>, <<"-", "id:", "rag_profile">>, <<"metadata:">> >>

\* what config/memory.yaml holds: a document yaml cannot parse, one without
\* profiles, or the profile rag_profile with one entry of metadata
SettingsContents ==
    { <<<<"{">>>>,
      <<<<"memory:">>>>,
      ProfileLines \o <<<<"rag_enabled:", "false">>>>,
      ProfileLines \o <<<<"rag_top_k:", "1">>>>,
      ProfileLines \o <<<<"rag_top_k:", "many">>>> }

\* meta.get(key): the value of the first metadata entry under that key
Setting(lines, key) ==
    LET at == {i \in (Len(ProfileLines) + 1)..Len(lines) :
                  Len(lines[i]) = 2 /\ lines[i][1] = key}
    IN  IF at = {} THEN ""
        ELSE lines[CHOOSE i \in at : \A j \in at : i <= j][2]

\* _load_rag_settings(cwd)
LoadRagSettings(fs) ==
    LET f == fs[SettingsPath]
    IN  IF ~f.exists THEN DefaultRagMeta
        ELSE IF Len(f.lines) < Len(ProfileLines)
                \/ SubSeq(f.lines, 1, Len(ProfileLines)) # ProfileLines
        THEN DefaultRagMeta     \* the parse raised, or there is no rag_profile
        ELSE LET enabled == Setting(f.lines, "rag_enabled:")
                 top == Setting(f.lines, "rag_top_k:")
             IN  IF top # "" /\ top \notin NumberTokens
                 THEN DefaultRagMeta    \* int() raised
                 ELSE [enabled |-> enabled # "false",
                       top_k |-> IF top = "" THEN TopKDefault ELSE ReadNat(top)]

\* a token of the query: its path parts and whether it ends in "/"
Token(parts, slash) == [parts |-> parts, slash |-> slash]

\* tok.rstrip("/") + "/" + tokens[i + 1].lstrip("/")
CombinedWith(tok, next) == Token(tok.parts \o next.parts, next.slash)

MaxLoopSteps == 12  \* iterations the token loop is followed for

\* the loop of _gather_direct_file_snippets that appends combined tokens to the
\* list it iterates over; ended is FALSE when it is still running after fuel steps
RECURSIVE CombineFrom(_, _, _)
CombineFrom(tokens, i, fuel) ==
    IF i > Len(tokens) THEN [ended |-> TRUE, tokens |-> tokens]
    ELSE IF fuel = 0 THEN [ended |-> FALSE, tokens |-> tokens]
    ELSE CombineFrom(IF i + 1 <= Len(tokens) /\ tokens[i].slash
                     THEN Append(tokens, CombinedWith(tokens[i], tokens[i + 1]))
                     ELSE tokens,
                     i + 1, fuel - 1)

\* the file of the workspace a token names, through any of candidate_paths
NamedPath(tok) ==
    LET parts == SelectSeq(tok.parts, LAMBDA part : part # ".")
    IN  IF tok.slash THEN NoPath
        ELSE IF parts = <<"a.py">> THEN PathA
        ELSE IF parts = <<".git", "config">> THEN GitConfigPath
        ELSE NoPath

RECURSIVE JoinAll(_)
JoinAll(strs) ==
    IF strs = <<>> THEN EmptyStr
    ELSE IF Len(strs) = 1 THEN Head(strs)
    ELSE Joined(Head(strs), JoinAll(Tail(strs)))

\* f"{rel}:1-{min(len(lines),200)}\n{excerpt}"
Snippet(p, lines) ==
    LET n == Min(Len(lines), SnippetPreview)
    IN  <<p \o <<"1", ToString(n)>>>>
        \o (IF n = 0 THEN <<Blank>> ELSE [i \in 1..n |-> <<ToString(i)>> \o lines[i]])

RECURSIVE SnippetsFrom(_, _, _, _, _)
SnippetsFrom(tokens, i, seen, fs, readable) ==
    IF i > Len(tokens) THEN <<>>
    ELSE LET p == NamedPath(tokens[i])
         IN  IF p = NoPath \/ p \in seen THEN SnippetsFrom(tokens, i + 1, seen, fs, readable)
             ELSE IF ~fs[p].exists THEN SnippetsFrom(tokens, i + 1, seen, fs, readable)
             ELSE (IF readable THEN <<Snippet(p, fs[p].lines)>> ELSE <<>>)
                  \o SnippetsFrom(tokens, i + 1, seen \cup {p}, fs, readable)

\* _gather_direct_file_snippets(query, workspace_root) once the token loop has
\* ended; the fallback file src/agent_engine/runtime/context.py is in no workspace
\* of the model
GatherDirectFileSnippets(tokens, fs, readable) ==
    JoinAll(SnippetsFrom(tokens, 1, {}, fs, readable))

\* names glob does not match and directories it does not enter: they start
\* with a dot
DotNames == {".git", ".github", ".agent_engine", ".ask_rag_index"}

\* what one listing of a directory gives glob("**/*"): the files it holds and,
\* for the root, the directories below it (a directory is listed by its name
\* alone), less the names that start with a dot
GlobEntries(w, fs, st, dir) ==
    {p \in FilePaths \cup StorePaths :
        OnDisk(p, fs, st).exists /\ p[1] = dir /\ p[2] \notin DotNames}
    \cup (IF dir = "" THEN {<<d>> : d \in Dirs(w, fs, st) \ DotNames} ELSE {})

\* all_files less the entries with .git, venv or __pycache__ in their path, the
\* path of the root included (tools.py 81-84)
Kept(w, listed) == SelectSeq(listed, LAMBDA e : ~SkippedDir(w, e[1]))

\* file_list: the first 200 entries and a count of the rest
FileList(listed) ==
    LET preview == SubSeq(listed, 1, Min(Len(listed), ListingPreview))
    IN  IF listed = <<>> THEN EmptyStr
        ELSE IF Len(listed) > Len(preview)
        THEN preview \o <<<<"... and", ToString(Len(listed) - Len(preview)), "more files">>>>
        ELSE preview

\* the lines _run_rag renders its chunks as; the score is written as the model holds it
RagRendered(result) ==
    JoinAll([i \in 1..Len(result) |->
                <<result[i].path \o <<ToString(result[i].start_line), ToString(result[i].end_line),
                                       "score">> \o NumsTokens(result[i].score)>>
                \o StripStr(result[i].text)])

\* the queries: "", "x", "a.py", "./ a.py", "a/ b/", ".git/config", and "\ud800",
\* a lone surrogate, which UTF-8 cannot encode; each with its tokens
\* (re.findall(r"[A-Za-z0-9_./:-]+", query)), as text the line it is, and
\* whether it can be encoded
ToolQueries ==
    { [text |-> <<>>, tokens |-> <<>>, encodable |-> TRUE],
      [text |-> <<Word>>, tokens |-> <<Token(<<"x">>, FALSE)>>, encodable |-> TRUE],
      [text |-> <<<<"a.py">>>>, tokens |-> <<Token(<<"a.py">>, FALSE)>>, encodable |-> TRUE],
      [text |-> <<<<"./", "a.py">>>>,
       tokens |-> <<Token(<<".">>, TRUE), Token(<<"a.py">>, FALSE)>>, encodable |-> TRUE],
      [text |-> <<<<"a/", "b/">>>>,
       tokens |-> <<Token(<<"a">>, TRUE), Token(<<"b">>, TRUE)>>, encodable |-> TRUE],
      [text |-> <<<<".git/config">>>>,
       tokens |-> <<Token(<<".git", "config">>, FALSE)>>, encodable |-> TRUE],
      [text |-> <<<<"\\ud800">>>>, tokens |-> <<>>, encodable |-> FALSE] }

FocusChoices == {<<>>, <<"config", "docs">>}

QuestionTypes == {"None", "overview", "lookup", "implementation", "configuration", "other"}

\* the calls followed: every query without focus areas or question type, and
\* the query "x" with every choice of focus areas and every question type
ToolCalls ==
    {[query |-> q, focus |-> <<>>, question_type |-> "None"] : q \in ToolQueries}
    \cup {[query |-> q, focus |-> f, question_type |-> t] :
            q \in {c \in ToolQueries : c.text = <<Word>>},
            f \in FocusChoices, t \in QuestionTypes}

\* --max-count and --context of the rg command
MaxCount == 5
Context == 1

\* the tokens of the files of the workspace that hold the letter x
TokensWithX == {"x", "context_profiles:"}

\* whether rg finds its pattern in a line: the query x finds the letter x; the
\* other queries, read as regular expressions, match no line of a file here
RgMatches(query, line) ==
    query.text = <<Word>> /\ \E k \in 1..Len(line) : line[k] \in TokensWithX

\* the lines of a file rg reports as matches: the first MaxCount that match
RgFirst(query, lines) ==
    LET all == {i \in 1..Len(lines) : RgMatches(query, lines[i])}
    IN  {i \in all : Cardinality({j \in all : j <= i}) <= MaxCount}

\* the lines of a file of n lines rg prints, its matches being first: the
\* matches and Context lines on either side
RgShown(first, n) ==
    {i \in 1..n : \E m \in first : i >= m - Context /\ i <= m + Context}

\* what rg prints for file p from line i on, first being the matches and shown
\* the lines to print: path, mark, line number, mark and text, the mark ":" for
\* a match and "-" for a line of context, and "--" where lines are passed
\* over.  A line after the last match reported that matches too has the mark
\* late
RECURSIVE RgLinesFrom(_, _, _, _, _, _, _)
RgLinesFrom(p, lines, query, first, shown, late, i) ==
    IF \A j \in shown : j < i THEN <<>>
    ELSE IF i \notin shown THEN RgLinesFrom(p, lines, query, first, shown, late, i + 1)
    ELSE LET mark == IF i \in first THEN ":"
                     ELSE IF RgMatches(query, lines[i]) THEN late
                     ELSE "-"
         IN  (IF (i - 1) \notin shown /\ \E j \in shown : j < i THEN <<<<"--">>>> ELSE <<>>)
             \o <<p \o <<mark, ToString(i), mark>> \o lines[i]>>
             \o RgLinesFrom(p, lines, query, first, shown, late, i + 1)

\* what rg prints for file p of these lines
RgFile(p, lines, query, late) ==
    LET first == RgFirst(query, lines)
    IN  RgLinesFrom(p, lines, query, first, RgShown(first, Len(lines)), late, 1)

\* the files rg searches below a search directory, "" the root: it passes over
\* the names that start with a dot, and nothing else of the workspace
RgSearched(fs, st, area) ==
    {p \in FilePaths \cup StorePaths :
        /\ OnDisk(p, fs, st).exists
        /\ p[1] \notin DotNames /\ p[2] \notin DotNames
        /\ area = "" \/ p[1] = area}

\* what rg prints for the files of order: "--" between one file and the next
RECURSIVE RgPrints(_, _, _, _, _)
RgPrints(order, fs, st, query, late) ==
    IF order = <<>> THEN <<>>
    ELSE RgFile(Head(order), OnDisk(Head(order), fs, st).lines, query, late)
         \o (IF Tail(order) = <<>> THEN <<>> ELSE <<<<"--">>>>)
         \o RgPrints(Tail(order), fs, st, query, late)

\* what subprocess.run of rg on a search directory does: it raises (a query
\* that cannot be encoded raises before rg is started), or it returns what rg
\* has printed, the files with a match in any order.  The mark of a matching
\* line after the last match reported is the one the rg installed gives it
RgOutcomes(fs, st, area, query) ==
    {[raised |-> TRUE, stdout |-> EmptyStr]}
    \cup (IF ~query.encodable THEN {}
          ELSE LET hits == {p \in RgSearched(fs, st, area) :
                              RgFirst(query, OnDisk(p, fs, st).lines) # {}}
               IN  {[raised |-> FALSE,
                     stdout |-> IF hits = {} THEN EmptyStr
                                ELSE RgPrints(order, fs, st, query, late)] :
                       order \in Perms(hits), late \in {":", "-"}})

Section(header, body) == [header |-> header, body |-> body]

OrElse(str, placeholder) == IF str = EmptyStr THEN placeholder ELSE str

\* the first two values _run_rag returns, from what the retrieval did
RagSnippets(r) ==
    IF r.status = "RAG completed." THEN RagRendered(r.result)
    ELSE IF r.status = "RAG completed (no matches)." THEN Placeholder.rag_empty
    ELSE EmptyStr

\* a mutation of FilteredReadme: only lookup drops the README
FilteredReadmeLookupOnly(question_type, readme_content) ==
    IF question_type = "overview"
    THEN [omitted |-> FALSE, body |-> TruncateReadme(readme_content, ReadmeMaxLines)]
    ELSE IF question_type \in {"lookup"}
    THEN [omitted |-> TRUE, body |-> EmptyStr]
    ELSE [omitted |-> FALSE, body |-> readme_content]

\* filtered_readme by question type; "omitted" stands for None
FilteredReadme(question_type, readme_content) ==
    IF question_type = "overview"
    THEN [omitted |-> FALSE, body |-> TruncateReadme(readme_content, ReadmeMaxLines)]
    ELSE IF question_type \in {"lookup", "implementation", "configuration"}
    THEN [omitted |-> TRUE, body |-> EmptyStr]
    ELSE [omitted |-> FALSE, body |-> readme_content]

FilteredSearch(question_type, search_snippets) ==
    IF question_type \in {"overview", "implementation", "configuration"}
    THEN LimitSearchResults(search_snippets, OverviewMatches)
    ELSE IF question_type = "lookup"
    THEN LimitSearchResults(search_snippets, LookupMatches)
    ELSE search_snippets

\* the sections of the returned bundle, tools.py 164-176
Sections(query, question_type, search_snippets, rag_snippets, rag_error, direct, readme_content, file_list) ==
    LET readme == FilteredReadme(question_type, readme_content)
    IN  << Section("## Query", IF query = <<>> THEN EmptyStr ELSE query),
           Section("## Search Snippets",
                   OrElse(FilteredSearch(question_type, search_snippets), Placeholder.search)),
           Section("## RAG Snippets", OrElse(rag_snippets, Placeholder.rag)),
           Section("## RAG Status", <<<<rag_error>>>>),
           Section("## Direct File Snippets", OrElse(direct, Placeholder.direct)) >>
        \o (IF readme.omitted THEN <<>>
            ELSE <<Section("## README", OrElse(readme.body, Placeholder.readme))>>)
        \o <<Section("## Project File Listing (partial)", OrElse(file_list, Placeholder.listing))>>

\* focus_areas after the default for configuration questions
FocusAreas(focus_areas, question_type) ==
    IF question_type = "configuration" /\ focus_areas = <<>>
    THEN <<"config", "docs">>
    ELSE focus_areas

\* search_codebase_tool under way: its arguments (focus_areas after the
\* default), the entries glob has listed and the directories it has yet to
\* enter, what the call has gathered, the search directories yet to come (todo)
\* and those rg has run on (searched), the calls of _run_rag made, and the
\* sources that failed
Searching(call) ==
    [op |-> "search_codebase_tool", stage |-> "glob", quiet |-> TRUE,
     query |-> call.query, focus_areas |-> FocusAreas(call.focus, call.question_type),
     question_type |-> call.question_type, listed |-> <<>>, dirs |-> <<>>,
     file_list |-> EmptyStr, readme_content |-> EmptyStr, direct |-> EmptyStr,
     enabled |-> FALSE, rag |-> NoRag, retrievals |-> 0, todo |-> <<>>,
     searched |-> <<>>, snippet_lines |-> <<>>, failed |-> {}]

\* a step of the call that is not its last
ToolStep(next) == build' = next /\ Walking

\* the call ends: what it did and what it gave back
ToolEnds(ctx, outcome, sections) ==
    /\ tool' = [ran |-> TRUE, query |-> ctx.query, focus_areas |-> ctx.focus_areas,
                question_type |-> ctx.question_type, outcome |-> outcome,
                sections |-> sections, enabled |-> ctx.enabled,
                retrievals |-> ctx.retrievals, searches |-> Len(ctx.searched),
                searched |-> ctx.searched, readme_content |-> ctx.readme_content,
                failed |-> ctx.failed]
    /\ Observed(Recorded("search_codebase_tool", ctx.quiet))
    /\ rag' = ctx.rag
    /\ probe' = NoProbe
    /\ build' = NoBuild
    /\ UNCHANGED <<files, store, now, edits, saves, startup, site, obs, writers>>

\* tools.py 135-176: the bundle is put together from what was gathered
Assembled(ctx, search_snippets) ==
    ToolEnds(ctx, "bundle",
             Sections(ctx.query.text, ctx.question_type,
                      OrElse(search_snippets, Placeholder.search),
                      RagSnippets(ctx.rag),
                      IF ctx.enabled THEN ctx.rag.status ELSE Placeholder.status,
                      ctx.direct, ctx.readme_content, ctx.file_list))

\* search_codebase_tool(query, focus_areas, workspace_root, question_type)
\* begins: the default focus areas, then the print, which raises for a query
\* standard output cannot encode when its error handler is strict
SearchCodebaseTool ==
    /\ build.op = "none"
    /\ ~tool.ran
    /\ \E call \in ToolCalls, strict \in BOOLEAN :
          IF ~call.query.encodable /\ strict
          THEN ToolEnds(Searching(call), "raised", <<>>)
          ELSE ToolStep(Searching(call))

\* glob has returned all_files: files, file_list, and whether there is a README
\* to read
Globbed(ctx, all_files) ==
    LET listed == Kept(site, all_files)
    IN  ToolStep([ctx EXCEPT
                    !.listed = listed,
                    !.dirs = <<>>,
                    !.file_list = FileList(listed),
                    !.stage = IF \E i \in 1..Len(listed) : listed[i] = ReadmePath
                              THEN "readme" ELSE "direct"])

\* the files of no lines of a workspace of many files, all in the root
EmptyFiles(w) ==
    {<<"", "n" \o ToString(i), ".py">> : i \in 1..w.empty_py}
    \cup {<<"", "n" \o ToString(i), ".md">> : i \in 1..w.empty_md}

\* glob("**/*") lists the root: its entries, the files of no lines among them,
\* in the order of the listing; a root that does not exist gives no entry
GlobRoot ==
    /\ build.op = "search_codebase_tool"
    /\ build.stage = "glob"
    /\ IF ~site.root THEN Globbed(build, <<>>)
       ELSE \E entries \in Perms(GlobEntries(site, files, store, "") \cup EmptyFiles(site)) :
               ToolStep([build EXCEPT !.listed = entries, !.stage = "dirs"])

\* glob lists the root again, for the directories to enter
GlobDirs ==
    /\ build.op = "search_codebase_tool"
    /\ build.stage = "dirs"
    /\ \E dirs \in Perms(Dirs(site, files, store) \ DotNames) :
          IF dirs = <<>> THEN Globbed(build, build.listed)
          ELSE ToolStep([build EXCEPT !.dirs = dirs, !.stage = "enter"])

\* glob lists the next directory and yields what it holds
GlobEnter ==
    /\ build.op = "search_codebase_tool"
    /\ build.stage = "enter"
    /\ \E entries \in Perms(GlobEntries(site, files, store, Head(build.dirs))) :
          IF Tail(build.dirs) = <<>> THEN Globbed(build, build.listed \o entries)
          ELSE ToolStep([build EXCEPT !.listed = @ \o entries, !.dirs = Tail(@)])

\* open and read of the first README listed; a failure gives the error text
ToolReadme ==
    /\ build.op = "search_codebase_tool"
    /\ build.stage = "readme"
    /\ \E readme_ok \in BOOLEAN :
          ToolStep([build EXCEPT
                      !.readme_content = IF readme_ok THEN ReadAll(files[ReadmePath].lines)
                                         ELSE Placeholder.readme_error,
                      !.failed = @ \cup (IF readme_ok THEN {} ELSE {"readme"}),
                      !.stage = "direct"])

\* _gather_direct_file_snippets(query, cwd): a token loop that does not end
\* grows the list until memory runs out, a MemoryError the outer except turns
\* into the error string, or the process is killed; else the files the tokens
\* name are read, a failure passed over
ToolDirect ==
    /\ build.op = "search_codebase_tool"
    /\ build.stage = "direct"
    /\ LET loop == CombineFrom(build.query.tokens, 1, MaxLoopSteps)
       IN  IF ~loop.ended
           THEN \E outcome \in {"error", "killed"} : ToolEnds(build, outcome, <<>>)
           ELSE \E direct_ok \in BOOLEAN :
                   ToolStep([build EXCEPT
                               !.direct = GatherDirectFileSnippets(loop.tokens, files, direct_ok),
                               !.failed = @ \cup
                                   (IF ~direct_ok
                                       /\ GatherDirectFileSnippets(loop.tokens, files, TRUE)
                                            # EmptyStr
                                    THEN {"direct"} ELSE {}),
                               !.stage = "rag"])

\* _load_rag_settings(cwd), and with retrieval enabled _run_rag(query, cwd,
\* rag_meta) begins
ToolRag ==
    /\ build.op = "search_codebase_tool"
    /\ build.stage = "rag"
    /\ UNCHANGED <<files, store, now, edits, saves, lastOp, pre, fresh, incRuns, startup,
                   probe, tool, obs, writers>>
    /\ LET rag_meta == LoadRagSettings(files)
           by == [build EXCEPT !.enabled = TRUE, !.retrievals = @ + 1]
       IN  IF ~rag_meta.enabled
           THEN /\ build' = [build EXCEPT !.stage = "search"]
                /\ UNCHANGED <<rag, site>>
           ELSE IF build.query.text = <<>>
           THEN /\ Searched("RAG skipped (empty query).", NoPath, <<>>, 0, FALSE, <<>>, <<>>)
                /\ build' = AfterRag(by, rag', build.quiet)
                /\ UNCHANGED site
           ELSE /\ RagBegins(by, build.query.text, rag_meta.top_k, build.quiet)
                /\ UNCHANGED rag

\* search_dirs = focus_areas or [cwd]
SearchDirs(focus_areas) == IF focus_areas = <<>> THEN <<"">> ELSE focus_areas

\* if query: shutil.which("rg"), and with rg on the PATH the loop over the
\* search directories begins
ToolSearch ==
    /\ build.op = "search_codebase_tool"
    /\ build.stage = "search"
    /\ IF build.query.text = <<>> THEN Assembled(build, EmptyStr)
       ELSE IF ~site.rg THEN Assembled(build, Placeholder.rg)
       ELSE ToolStep([build EXCEPT !.stage = "area", !.todo = SearchDirs(build.focus_areas)])

\* the loop of tools.py 115-134 at the next search directory: one that does
\* not exist is passed over; on one that does subprocess.run runs rg, and an
\* exception of it ends the call in the outer except, else what rg printed is
\* kept, stripped, when it is not empty; after the last one the outputs are
\* joined
ToolArea ==
    /\ build.op = "search_codebase_tool"
    /\ build.stage = "area"
    /\ LET area == Head(build.todo)
           there == IF area = "" THEN site.root ELSE area \in Dirs(site, files, store)
           Goes(ctx) == IF ctx.todo = <<>>
                        THEN Assembled(ctx, StripStr(JoinAll(ctx.snippet_lines)))
                        ELSE ToolStep(ctx)
       IN  IF ~there THEN Goes([build EXCEPT !.todo = Tail(@)])
           ELSE \E rg \in RgOutcomes(files, store, area, build.query) :
                   IF rg.raised
                   THEN ToolEnds([build EXCEPT !.searched = Append(@, area),
                                               !.failed = @ \cup {"search"}],
                                 "error", <<>>)
                   ELSE Goes([build EXCEPT
                                !.todo = Tail(@),
                                !.searched = Append(@, area),
                                !.snippet_lines = IF StripStr(rg.stdout) = EmptyStr THEN @
                                                  ELSE Append(@, StripStr(rg.stdout))])

TitledReadme == <<<<"#", "x">>, Word>>
HeadedReadme == <<<<"#", "x">>, Word, Heading, Word>>
LongReadme == [i \in 1..(ReadmeMaxLines + 1) |-> Word]

\* a README whose MaxCount lines of text stand apart, each printed by rg with
\* its context
SpacedReadme ==
    [i \in 1..((MaxCount - 1) * (2 * Context + 2) + 1) |->
        IF (i - 1) % (2 * Context + 2) = 0 THEN Word ELSE Blank]

ReadmeFiles ==
    {NoFile} \cup {[exists |-> TRUE, lines |-> l, mtime |-> 1] :
                      l \in {<<>>, TitledReadme, HeadedReadme,
                            <<Heading, Word, Heading>>, LongReadme, SpacedReadme}}

SettingsFiles ==
    {NoFile} \cup {[exists |-> TRUE, lines |-> l, mtime |-> 1] : l \in SettingsContents}

\* the directories the focus areas name, there without a file in them
FocusDirs == {"config", "docs"}

\* a workspace with a.py, a README and a settings file each there or not (a
\* settings file next to no README or one of a title only), with an empty
\* config or docs directory, both or neither, with or without rg; or a root
\* that does not exist.  The user's edits are followed in the workspaces of
\* a.py alone; the others do not change
InitTool ==
    /\ \E root \in BOOLEAN, rg \in BOOLEAN, empty \in SUBSET FocusDirs :
       \E a \in OneLineFiles, readme \in ReadmeFiles, settings \in SettingsFiles :
          /\ ~root => a = NoFile /\ readme = NoFile /\ settings = NoFile /\ empty = {}
          /\ settings = NoFile \/ (readme.lines \in {<<>>, TitledReadme} /\ empty = {})
          /\ site = [PlainSite EXCEPT !.root = root, !.rg = rg, !.dirs = empty]
          /\ files = [p \in FilePaths |->
                        IF p = PathA THEN a
                        ELSE IF p = ReadmePath THEN readme
                        ELSE IF p = SettingsPath THEN settings
                        ELSE NoFile]
          /\ edits = IF root /\ readme = NoFile /\ settings = NoFile /\ empty = {}
                     THEN 0 ELSE MaxEdits
    /\ tool = NoTool
    /\ obs = NoObs
    /\ build = NoBuild
    /\ writers = NoWriters
    /\ store = [s \in StorePaths |-> NoIndexFile]
    /\ now = 1
    /\ saves = 0
    /\ lastOp = "none"
    /\ pre = NoStore
    /\ fresh = <<>>
    /\ incRuns = 0
    /\ startup = NoStartup
    /\ rag = NoRag
    /\ probe = NoProbe

NextTool ==
    \/ UserWrites
    \/ UserDeletes
    \/ SearchCodebaseTool
    \/ GlobRoot
    \/ GlobDirs
    \/ GlobEnter
    \/ ToolReadme
    \/ ToolDirect
    \/ ToolRag
    \/ WalkList
    \/ WalkEnter
    \/ WalkStat
    \/ WalkRead
    \/ BuildSaves
    \/ BuildFails
    \/ CallEnds
    \/ ToolSearch
    \/ ToolArea

SpecTool == InitTool /\ [][NextTool]_vars

\* a workspace with .git, venv and __pycache__ directories, a file in each, next
\* to a.py and a README that are there or not; with or without rg
InitExcluded ==
    /\ \E rg \in BOOLEAN : site = [PlainSite EXCEPT !.rg = rg]
    /\ \E a \in OneLineFiles, readme \in {NoFile, [exists |-> TRUE, lines |-> <<Word>>, mtime |-> 1]} :
          files = [p \in FilePaths |->
                     IF p = PathA THEN a
                     ELSE IF p = ReadmePath THEN readme
                     ELSE IF p \in ExcludedPaths
                     THEN [exists |-> TRUE, lines |-> <<Word>>, mtime |-> 1]
                     ELSE NoFile]
    /\ tool = NoTool
    /\ obs = NoObs
    /\ build = NoBuild
    /\ writers = NoWriters
    /\ store = [s \in StorePaths |-> NoIndexFile]
    /\ now = 1
    /\ edits = 0
    /\ saves = 0
    /\ lastOp = "none"
    /\ pre = NoStore
    /\ fresh = <<>>
    /\ incRuns = 0
    /\ startup = NoStartup
    /\ rag = NoRag
    /\ probe = NoProbe

SpecExcluded == InitExcluded /\ [][NextTool]_vars

----------------------------------------------------------------------------
(* SimpleVectorStore on its own: saves and loads of any chunks *)

MaxStored == 2      \* longest chunk sequence handed to save

StoredChunks ==
    { [Chunk(PathA, 1, 2, <<Word, Blank>>, 1) EXCEPT !.embedding = <<2, 1>>],
      [Chunk(<<"docs", "b", ".md">>, 1, 1, <<Word>>, 2) EXCEPT !.score = <<-1, 2>>],
      [Chunk(PathA, 3, 3, <<Word>>, 1) EXCEPT !.embedding = <<1, 1>>, !.score = <<1, 1>>] }

StoredSeqs == UNION { [1..n -> StoredChunks] : n \in 0..MaxStored }

\* what was handed to the last save at each path, and to the save before it
NothingSaved == [op |-> "none", path |-> NoPath, loaded |-> <<>>,
                 saved |-> [s \in StorePaths |-> <<>>],
                 before |-> [s \in StorePaths |-> <<>>]]

\* the stores of both paths are constructed: SimpleVectorStore.__init__ has made
\* the directory of each index file
InitStore ==
    /\ site = [PlainSite EXCEPT !.dirs = {s[1] : s \in {t \in StorePaths : t[1] # ""}}]
    /\ tool = NoTool
    /\ obs = NothingSaved
    /\ build = NoBuild
    /\ writers = NoWriters
    /\ files = [p \in FilePaths |-> NoFile]
    /\ store = [s \in StorePaths |-> NoIndexFile]
    /\ now = 1
    /\ edits = 0
    /\ saves = 0
    /\ lastOp = "none"
    /\ pre = NoStore
    /\ fresh = <<>>
    /\ incRuns = 0
    /\ startup = NoStartup
    /\ rag = NoRag
    /\ probe = NoProbe

\* SimpleVectorStore(path).save(chunks)
StoreSave ==
    /\ saves < MaxSaves
    /\ \E s \in StorePaths, chunks \in StoredSeqs :
        /\ store' = Save(store, s, chunks, now + 1)
        /\ site' = WithFile(site, s)
        /\ obs' = [op |-> "save", path |-> s, loaded |-> <<>>,
                   saved |-> [obs.saved EXCEPT ![s] = chunks],
                   before |-> [obs.before EXCEPT ![s] = obs.saved[s]]]
    /\ now' = now + 1
    /\ saves' = saves + 1
    /\ Observed("save")
    /\ UNCHANGED <<files, edits, startup, rag, probe, tool, writers, build>>

\* SimpleVectorStore(path).load()
StoreLoad ==
    /\ \E s \in StorePaths :
        obs' = [obs EXCEPT !.op = "load", !.path = s, !.loaded = Load(store, s)]
    /\ Observed("load")
    /\ UNCHANGED <<files, store, now, edits, saves, startup, rag, probe, site, tool, writers, build>>

NextStore == StoreSave \/ StoreLoad

SpecStore == InitStore /\ [][NextStore]_vars

----------------------------------------------------------------------------
(* OllamaEmbeddingProvider.embed on its own: requests, answers, batches *)

MaxTexts == 3       \* most texts handed to one embed call

BatchSize == 100

\* batch sizes embed is run with beside its own
OtherBatchSizes == {1, 2}

EmbeddedTexts == {<<>>, <<Word>>, <<Word, Word>>}

\* what one request can come to: a transport failure, or a decoded body
\*   embedding: {"embedding": v}      data: {"data": [{"embedding": v}]}
\*   null:      {"embedding": null}   empty: {}
\*   no_data:   {"data": []}          other: {"error": "..."}
AnswerKinds == {"fail", "embedding", "data", "null", "empty", "no_data", "other"}

Answer(kind, text) ==
    [kind |-> kind,
     vec |-> IF kind \in {"embedding", "data"} THEN ServiceVector(text) ELSE <<>>]

\* _parse_embedding_response(data), with none for None
ParseEmbeddingResponse(data) ==
    IF data.kind = "empty" THEN [none |-> TRUE, vec |-> <<>>]
    ELSE IF data.kind \in {"embedding", "null"}
    THEN [none |-> data.kind = "null", vec |-> data.vec]
    ELSE IF data.kind \in {"data", "no_data"}
    THEN [none |-> data.kind = "no_data", vec |-> data.vec]
    ELSE [none |-> TRUE, vec |-> <<>>]

\* a mutation of EmbedTexts: a failed request is passed over
RECURSIVE EmbedTextsSkippingFailures(_, _, _, _, _)
EmbedTextsSkippingFailures(texts, answers, i, last, run) ==
    IF i > last \/ run.raised THEN run
    ELSE LET asked == [run EXCEPT !.requests = Append(run.requests, i)]
             vec == ParseEmbeddingResponse(answers[i])
         IN  IF answers[i].kind = "fail"
             THEN EmbedTextsSkippingFailures(texts, answers, i + 1, last, asked)
             ELSE EmbedTextsSkippingFailures(texts, answers, i + 1, last,
                     IF vec.none THEN asked
                     ELSE [asked EXCEPT !.vectors = Append(asked.vectors, vec.vec)])

\* the inner loop of embed over the texts i..last of one batch: a request for
\* each, a RuntimeError at the first that fails, the parsed vector appended
RECURSIVE EmbedTexts(_, _, _, _, _)
EmbedTexts(texts, answers, i, last, run) ==
    IF i > last \/ run.raised THEN run
    ELSE LET asked == [run EXCEPT !.requests = Append(run.requests, i)]
             vec == ParseEmbeddingResponse(answers[i])
         IN  IF answers[i].kind = "fail"
             THEN [asked EXCEPT !.raised = TRUE]
             ELSE EmbedTexts(texts, answers, i + 1, last,
                     IF vec.none THEN asked
                     ELSE [asked EXCEPT !.vectors = Append(asked.vectors, vec.vec)])

\* a mutation of EmbedBatches: each batch starts from an empty list of vectors
RECURSIVE EmbedBatchesKeepingLast(_, _, _, _, _)
EmbedBatchesKeepingLast(texts, answers, batch_start, batch_size, run) ==
    IF batch_start > Len(texts) \/ run.raised THEN run
    ELSE EmbedBatchesKeepingLast(texts, answers, batch_start + batch_size, batch_size,
            EmbedTexts(texts, answers, batch_start,
                       Min(batch_start + batch_size - 1, Len(texts)),
                       [run EXCEPT !.vectors = <<>>]))

\* the outer loop of embed: batches of batch_size texts from batch_start on
RECURSIVE EmbedBatches(_, _, _, _, _)
EmbedBatches(texts, answers, batch_start, batch_size, run) ==
    IF batch_start > Len(texts) \/ run.raised THEN run
    ELSE EmbedBatches(texts, answers, batch_start + batch_size, batch_size,
            EmbedTexts(texts, answers, batch_start,
                       Min(batch_start + batch_size - 1, Len(texts)), run))

\* embed(texts) with the given batch size, the i-th request answered answers[i]:
\* whether it raised, the requests made, the vectors it held when it ended and
\* the vectors it returned
EmbedRun(texts, answers, batch_size) ==
    LET run == EmbedBatches(texts, answers, 1, batch_size,
                            [raised |-> FALSE, requests |-> <<>>, vectors |-> <<>>])
    IN  [raised |-> run.raised, requests |-> run.requests, held |-> run.vectors,
         returned |-> IF run.raised THEN <<>> ELSE run.vectors]

\* before a call of embed or of cosine_similarity alone
InitEmbed ==
    /\ site = PlainSite
    /\ tool = NoTool
    /\ obs = NoObs
    /\ build = NoBuild
    /\ writers = NoWriters
    /\ files = [p \in FilePaths |-> NoFile]
    /\ store = [s \in StorePaths |-> NoIndexFile]
    /\ now = 1
    /\ edits = 0
    /\ saves = 0
    /\ lastOp = "none"
    /\ pre = NoStore
    /\ fresh = <<>>
    /\ incRuns = 0
    /\ startup = NoStartup
    /\ rag = NoRag
    /\ probe = NoProbe

\* OllamaEmbeddingProvider().embed(texts)
EmbedCall ==
    /\ obs = NoObs
    /\ build = NoBuild
    /\ \E n \in 0..MaxTexts :
       \E texts \in [1..n -> EmbeddedTexts], kinds \in [1..n -> AnswerKinds] :
         LET answers == [i \in 1..n |-> Answer(kinds[i], texts[i])]
         IN  obs' = [op |-> "embed", texts |-> texts, answers |-> answers,
                     run |-> EmbedRun(texts, answers, BatchSize),
                     by_size |-> [b \in OtherBatchSizes |-> EmbedRun(texts, answers, b)]]
    /\ Observed("embed")
    /\ UNCHANGED <<files, store, now, edits, saves, startup, rag, probe, site, tool, writers, build>>

SpecEmbed == InitEmbed /\ [][EmbedCall]_vars

----------------------------------------------------------------------------
(* Two build_index_incremental calls on one workspace, step by step *)

Writers == {1, 2}

\* a call not yet begun; then the index it loaded, its walk, the chunks it
\* holds once embed has returned, and the clock reading of its write
Idle ==
    [pc |-> "idle", op |-> "build_index_incremental", found |-> NoStore, todo |-> <<>>,
     dirs |-> <<>>, stage |-> "stat", mtime |-> 0, walk |-> <<>>, chunks |-> <<>>,
     wrote |-> 0]

\* the characters of a number json.dump writes as a float (1.0) whose tokens
\* begin toks
FloatChars(toks) == IF toks[1] = "-" THEN Len(toks[2]) + 3 ELSE Len(toks[1]) + 2

\* the characters of os.path.relpath of a path
RelChars(dir, stem, ext) == (IF dir = "" THEN 0 ELSE Len(dir) + 1) + Len(stem) + Len(ext)

\* whether a line is the one an index file ends with: no newline follows it
Closes(line) == line \in {<<"]">>, <<"[]">>}

\* a line as it stands in a file: its characters (the newline not counted), and
\* those among them json.dump escapes inside a string, the quotes and the
\* backslashes.  The lines are those of the user's files and those
\* json.dump(serializable, f, ensure_ascii=False, indent=2) writes (a score is
\* measured as the whole number a build saves); a line of "text" holds the
\* lines of the chunk, each escaped and followed by its escaped newline.  A
\* line cut by a later write has its characters from the cut on; no walk reads
\* such a line, for a file is cut only once both calls have walked
RECURSIVE Measure(_)
RECURSIVE MeasureText(_, _, _)
Measure(line) ==
    IF line = <<>> THEN [chars |-> 0, marks |-> 0]
    ELSE LET h == Head(line)
         IN  CASE Len(line) > 2 /\ line[2] = "cut" ->
                     [chars |-> Len(h) + Measure(SubSeq(line, 4, Len(line))).chars
                                  - ReadNat(line[3])]
               [] h = "x" -> [chars |-> 1, marks |-> 0]
               [] h \in {"[", "]"} /\ Len(line) = 1 -> [chars |-> 1, marks |-> 0]
               [] h = "[]" /\ Len(line) = 1 -> [chars |-> 2, marks |-> 0]
               [] h = "]" /\ Len(line) = 2 -> [chars |-> 6, marks |-> 0]
               [] h = "{" -> [chars |-> 3, marks |-> 0]
               [] h = "}" -> [chars |-> Len(line) + 2, marks |-> 0]
               [] h = "id" ->
                     [chars |-> 15 + RelChars(line[2], line[3], line[4])
                                   + Len(line[5]) + Len(line[6]),
                      marks |-> 4]
               [] h = "path" ->
                     [chars |-> 15 + RelChars(line[2], line[3], line[4]), marks |-> 4]
               [] h = "start_line" -> [chars |-> 19 + Len(line[2]), marks |-> 2]
               [] h = "end_line" -> [chars |-> 17 + Len(line[2]), marks |-> 2]
               [] h = "text" ->
                     LET inner == MeasureText(ReadCounted(line, ReadNum(line, 2)).val, 1,
                                           ReadNum(line, 2).val)
                     IN  [chars |-> 15 + inner.chars, marks |-> 4 + inner.marks]
               [] h = "embedding" ->
                     [chars |-> IF line[2] = "[]" THEN 20 ELSE 18, marks |-> 2]
               [] h = "score" -> [chars |-> 14 + FloatChars(Tail(line)), marks |-> 2]
               [] h = "modified_time" -> [chars |-> 21 + FloatChars(Tail(line)), marks |-> 2]
               [] OTHER ->     \* a component of an embedding
                     [chars |-> 6 + FloatChars(line)
                                  + (IF line[Len(line)] = "," THEN 1 ELSE 0),
                      marks |-> 0]

\* lines lo..hi of a chunk's text inside the string json.dump writes
MeasureText(text, lo, hi) ==
    IF lo > hi THEN [chars |-> 0, marks |-> 0]
    ELSE IF lo = hi
    THEN LET m == Measure(text[lo])
             newline == IF lo = Len(text) /\ Closes(text[lo]) THEN 0 ELSE 1
         IN  [chars |-> m.chars + m.marks + 2 * newline, marks |-> 2 * m.marks + newline]
    ELSE LET mid == (lo + hi) \div 2
             a == MeasureText(text, lo, mid)
             b == MeasureText(text, mid + 1, hi)
         IN  [chars |-> a.chars + b.chars, marks |-> a.marks + b.marks]

\* the characters of lines lo..hi of a file, a newline after each
RECURSIVE CharsIn(_, _, _)
CharsIn(lines, lo, hi) ==
    IF lo > hi THEN 0
    ELSE IF lo = hi THEN Measure(lines[lo]).chars + 1
    ELSE CharsIn(lines, lo, (lo + hi) \div 2) + CharsIn(lines, (lo + hi) \div 2 + 1, hi)

\* the size of a file whose last line has no newline
FileChars(lines) == IF lines = <<>> THEN 0 ELSE CharsIn(lines, 1, Len(lines)) - 1

\* a file old once text is written from its start: a shorter text leaves what
\* lies beyond its size, so that its last line runs on into the rest of the
\* line of old it ends in (at the k-th character of that line)
WrittenOver(old, text) ==
    LET n == FileChars(text)
    IN  IF n >= FileChars(old) THEN text
        ELSE LET i == CHOOSE j \in 1..Len(old) :
                         /\ CharsIn(old, 1, j - 1) <= n
                         /\ n <= CharsIn(old, 1, j - 1) + Measure(old[j]).chars
                 k == n - CharsIn(old, 1, i - 1)
             IN  SubSeq(text, 1, Len(text) - 1)
                 \o << text[Len(text)]
                       \o (IF k = Measure(old[i]).chars THEN <<>>
                           ELSE <<"cut", ToString(k)>> \o old[i]) >>
                 \o SubSeq(old, i + 1, Len(old))

\* open(self.path, "w"): the file is there and empty
SaveOpen(st, s, t) == [st EXCEPT ![s] = [exists |-> TRUE, lines |-> <<>>, mtime |-> t]]

\* json.dump and the close of the file: the text goes in from the start of the
\* file, over the characters that are there
SaveWrite(st, s, chunks, t) ==
    [st EXCEPT ![s] = [exists |-> TRUE,
                       lines |-> WrittenOver(st[s].lines, IndexFileLines(chunks)),
                       mtime |-> t]]

InitRace ==
    /\ site = PlainSite
    /\ tool = NoTool
    /\ obs = NoObs
    /\ build = NoBuild
    /\ writers = [w \in Writers |-> Idle]
    /\ \E user \in [UserPaths -> OneLineFiles] :
          files = [p \in FilePaths |-> IF p \in UserPaths THEN user[p] ELSE NoFile]
    /\ store = [s \in StorePaths |-> NoIndexFile]
    /\ now = 1
    /\ edits = 0
    /\ saves = 0
    /\ lastOp = "none"
    /\ pre = NoStore
    /\ fresh = <<>>
    /\ incRuns = 0
    /\ startup = NoStartup
    /\ rag = NoRag
    /\ probe = NoProbe

RaceFrame == UNCHANGED <<files, edits, saves, lastOp, pre, fresh, incRuns, startup, rag,
                         probe, site, tool, obs, build>>

\* a step of a call that writes nothing
WriterStep(w, next) ==
    /\ writers' = [writers EXCEPT ![w] = next]
    /\ UNCHANGED <<store, now>>
    /\ RaceFrame

\* existing_store = self.store.load(); json.load raises on a file that is not
\* an array of records
WriterLoad(w) ==
    /\ writers[w].pc = "idle"
    /\ LET s == get_rag_index_path
       IN  IF store[s].exists /\ ~IsJsonArray(store[s].lines)
           THEN WriterStep(w, [writers[w] EXCEPT !.pc = "failed"])
           ELSE WriterStep(w, [writers[w] EXCEPT !.pc = "loaded", !.found = Found(store, s)])

\* os.walk lists the root
WriterList(w) ==
    /\ writers[w].pc = "loaded"
    /\ \E order \in RootOrders(site, files, store), dirs \in DirOrders(site, files, store) :
          WriterStep(w, [writers[w] EXCEPT !.pc = "walking", !.todo = order, !.dirs = dirs])

\* os.walk enters the next directory
WriterEnter(w) ==
    /\ writers[w].pc = "walking"
    /\ writers[w].todo = <<>>
    /\ writers[w].dirs # <<>>
    /\ \E order \in FileOrders(site, files, store, Head(writers[w].dirs)) :
          WriterStep(w, [writers[w] EXCEPT !.todo = order, !.dirs = Tail(@)])

\* os.path.getmtime of the next file, which raises when the file is gone
WriterStat(w) ==
    /\ writers[w].pc = "walking"
    /\ writers[w].todo # <<>>
    /\ writers[w].stage = "stat"
    /\ LET p == Head(writers[w].todo)
           f == OnDisk(p, files, store)
       IN  WriterStep(w, IF f.exists THEN AfterStat(writers[w], p, f)
                         ELSE [writers[w] EXCEPT !.pc = "failed"])

\* open and readlines of the file whose modification time was read
WriterRead(w) ==
    /\ writers[w].pc = "walking"
    /\ writers[w].todo # <<>>
    /\ writers[w].stage = "read"
    /\ LET p == Head(writers[w].todo)
           f == OnDisk(p, files, store)
       IN  WriterStep(w, IF f.exists THEN AfterRead(writers[w], p, f)
                         ELSE [writers[w] EXCEPT !.pc = "failed"])

\* the walk is over: the embed call, which may raise, and the zip
WriterEmbed(w) ==
    /\ writers[w].pc = "walking"
    /\ writers[w].todo = <<>>
    /\ writers[w].dirs = <<>>
    /\ \E drop \in DropChoices(writers[w].walk), raised \in BOOLEAN :
          /\ raised => drop = 0 /\ NewChunks(writers[w].walk) # <<>>
          /\ WriterStep(w, IF raised THEN [writers[w] EXCEPT !.pc = "failed"]
                           ELSE [writers[w] EXCEPT
                                   !.pc = "computed",
                                   !.chunks = WithEmbeddings(writers[w].walk, drop)])

\* self.store.save(chunks), the open
WriterOpen(w) ==
    /\ writers[w].pc = "computed"
    /\ store' = SaveOpen(store, get_rag_index_path, now + 1)
    /\ now' = now + 1
    /\ writers' = [writers EXCEPT ![w].pc = "opened"]
    /\ RaceFrame

\* self.store.save(chunks), the write and the close
WriterWrite(w) ==
    /\ writers[w].pc = "opened"
    /\ store' = SaveWrite(store, get_rag_index_path, writers[w].chunks, now + 1)
    /\ now' = now + 1
    /\ writers' = [writers EXCEPT ![w].pc = "done", ![w].wrote = now + 1]
    /\ RaceFrame

NextRace ==
    \/ \E w \in Writers : WriterLoad(w)
    \/ \E w \in Writers : WriterList(w)
    \/ \E w \in Writers : WriterEnter(w)
    \/ \E w \in Writers : WriterStat(w)
    \/ \E w \in Writers : WriterRead(w)
    \/ \E w \in Writers : WriterEmbed(w)
    \/ \E w \in Writers : WriterOpen(w)
    \/ \E w \in Writers : WriterWrite(w)
    \/ UserWrites
    \/ UserDeletes

SpecRace == InitRace /\ [][NextRace]_vars

----------------------------------------------------------------------------
(* cosine_similarity in the arithmetic of Python floats (IEEE 754 binary64) *)

\* A natural number of any size is the sequence of its digits in base LimbBase,
\* lowest first, without leading zeros; zero is the empty sequence.
LimbBits == 13
LimbBase == 2 ^ LimbBits
MantissaBits == 53

RECURSIVE NatLimbs(_)
NatLimbs(n) == IF n = 0 THEN <<>> ELSE <<n % LimbBase>> \o NatLimbs(n \div LimbBase)

RECURSIVE Trim(_)
Trim(x) ==
    IF x = <<>> THEN <<>>
    ELSE IF x[Len(x)] = 0 THEN Trim(SubSeq(x, 1, Len(x) - 1))
    ELSE x

Limb(x, i) == IF i >= 1 /\ i <= Len(x) THEN x[i] ELSE 0

RECURSIVE AddFrom(_, _, _, _)
AddFrom(x, y, i, carry) ==
    IF i > Len(x) /\ i > Len(y) THEN (IF carry = 0 THEN <<>> ELSE <<carry>>)
    ELSE LET sum == Limb(x, i) + Limb(y, i) + carry
         IN  <<sum % LimbBase>> \o AddFrom(x, y, i + 1, sum \div LimbBase)

LAdd(x, y) == AddFrom(x, y, 1, 0)

RECURSIVE SubFrom(_, _, _, _)
SubFrom(x, y, i, borrow) ==
    IF i > Len(x) THEN <<>>
    ELSE LET d == Limb(x, i) - Limb(y, i) - borrow
         IN  <<(d + LimbBase) % LimbBase>> \o SubFrom(x, y, i + 1, IF d < 0 THEN 1 ELSE 0)

\* x - y for x >= y
LSub(x, y) == Trim(SubFrom(x, y, 1, 0))

RECURSIVE GeqFrom(_, _, _)
GeqFrom(x, y, i) ==
    IF i = 0 THEN TRUE
    ELSE IF x[i] # y[i] THEN x[i] > y[i]
    ELSE GeqFrom(x, y, i - 1)

LGeq(x, y) == IF Len(x) # Len(y) THEN Len(x) > Len(y) ELSE GeqFrom(x, y, Len(x))

RECURSIVE SmallBitLen(_)
SmallBitLen(n) == IF n = 0 THEN 0 ELSE 1 + SmallBitLen(n \div 2)

BitLen(x) == IF x = <<>> THEN 0 ELSE (Len(x) - 1) * LimbBits + SmallBitLen(x[Len(x)])

\* bit i of x, the lowest being bit 0
Bit(x, i) == (Limb(x, i \div LimbBits + 1) \div (2 ^ (i % LimbBits))) % 2

\* x * 2^k
ShiftLeftBits(x, k) ==
    LET a == k \div LimbBits
        b == k % LimbBits
    IN  Trim([j \in 1..(Len(x) + a + 1) |->
                (Limb(x, j - a) % (2 ^ (LimbBits - b))) * (2 ^ b)
                + Limb(x, j - a - 1) \div (2 ^ (LimbBits - b))])

\* x \div 2^k
ShiftRightBits(x, k) ==
    LET a == k \div LimbBits
        b == k % LimbBits
    IN  IF a >= Len(x) THEN <<>>
        ELSE Trim([j \in 1..(Len(x) - a) |->
                    Limb(x, j + a) \div (2 ^ b)
                    + (Limb(x, j + a + 1) % (2 ^ b)) * (2 ^ (LimbBits - b))])

RECURSIVE MulLimbFrom(_, _, _, _)
MulLimbFrom(x, d, i, carry) ==
    IF i > Len(x) THEN (IF carry = 0 THEN <<>> ELSE <<carry>>)
    ELSE LET prod == x[i] * d + carry
         IN  <<prod % LimbBase>> \o MulLimbFrom(x, d, i + 1, prod \div LimbBase)

RECURSIVE MulFrom(_, _, _)
MulFrom(x, y, i) ==
    IF i > Len(y) THEN <<>>
    ELSE LAdd(MulLimbFrom(x, y[i], 1, 0), <<0>> \o MulFrom(x, y, i + 1))

LMul(x, y) == Trim(MulFrom(x, y, 1))

\* long division by y > 0, a bit of x at a time from bit i down; so far holds
\* the quotient and the remainder of the bits of x above bit i
RECURSIVE DivModFrom(_, _, _, _)
DivModFrom(x, y, i, sofar) ==
    IF i < 0 THEN sofar
    ELSE LET r == LAdd(LAdd(sofar.rem, sofar.rem), IF Bit(x, i) = 1 THEN <<1>> ELSE <<>>)
             q == LAdd(sofar.quot, sofar.quot)
         IN  IF LGeq(r, y)
             THEN DivModFrom(x, y, i - 1, [quot |-> LAdd(q, <<1>>), rem |-> LSub(r, y)])
             ELSE DivModFrom(x, y, i - 1, [quot |-> q, rem |-> r])

\* the bits of x above the first that can make the remainder reach y are the
\* first remainder
LDivMod(x, y) ==
    LET i == Max(BitLen(x) - BitLen(y), -1)
    IN  DivModFrom(x, y, i, [quot |-> <<>>, rem |-> ShiftRightBits(x, i + 1)])

\* the integer square root of x and what is left, two bits of x at a time from
\* the pair at bits 2i+1 and 2i down
RECURSIVE SqrtFrom(_, _, _, _)
SqrtFrom(x, i, root, rem) ==
    IF i < 0 THEN [root |-> root, rem |-> rem]
    ELSE LET r == LAdd(ShiftLeftBits(rem, 2), NatLimbs(2 * Bit(x, 2 * i + 1) + Bit(x, 2 * i)))
             trial == LAdd(ShiftLeftBits(root, 2), <<1>>)
             twice == LAdd(root, root)
         IN  IF LGeq(r, trial)
             THEN SqrtFrom(x, i - 1, LAdd(twice, <<1>>), LSub(r, trial))
             ELSE SqrtFrom(x, i - 1, twice, r)

LSqrt(x) == SqrtFrom(x, (BitLen(x) + 1) \div 2 - 1, <<>>, <<>>)

\* A float is zero, or man * 2^exp with a sign and a mantissa of MantissaBits bits.
FZero == [neg |-> FALSE, man |-> <<>>, exp |-> 0]

\* the float nearest to man * 2^exp, or to a little more when sticky, ties to even
RoundFloat(neg, man, exp, sticky) ==
    LET n == BitLen(man)
        d == n - MantissaBits
    IN  IF n = 0 THEN FZero
        ELSE IF d <= 0
        THEN [neg |-> neg, man |-> ShiftLeftBits(man, -d), exp |-> exp + d]
        ELSE LET q == ShiftRightBits(man, d)
                 guard == Bit(man, d - 1) = 1
                 below == sticky \/ \E i \in 0..(d - 2) : Bit(man, i) = 1
                 up == guard /\ (below \/ Bit(q, 0) = 1)
                 r == IF up THEN LAdd(q, <<1>>) ELSE q
             IN  IF BitLen(r) > MantissaBits
                 THEN [neg |-> neg, man |-> ShiftRightBits(r, 1), exp |-> exp + d + 1]
                 ELSE [neg |-> neg, man |-> r, exp |-> exp + d]

\* float(n) of an integer n
FromInt(n) == RoundFloat(n < 0, NatLimbs(Abs(n)), 0, FALSE)

\* math.sqrt(f) of a float f >= 0
FSqrt(f) ==
    IF f.man = <<>> THEN FZero
    ELSE LET s == IF f.exp % 2 = 0 THEN MantissaBits + 5 ELSE MantissaBits + 4
             r == LSqrt(ShiftLeftBits(f.man, s))
         IN  RoundFloat(FALSE, r.root, (f.exp - s) \div 2, r.rem # <<>>)

\* f * g
FMul(f, g) ==
    IF f.man = <<>> \/ g.man = <<>> THEN FZero
    ELSE RoundFloat(f.neg # g.neg, LMul(f.man, g.man), f.exp + g.exp, FALSE)

\* f / g for g not zero
FDiv(f, g) ==
    IF f.man = <<>> THEN FZero
    ELSE LET s == MantissaBits + 4
             d == LDivMod(ShiftLeftBits(f.man, s), g.man)
         IN  RoundFloat(f.neg # g.neg, d.quot, f.exp - g.exp - s, d.rem # <<>>)

FOne == FromInt(1)

\* cosine_similarity(a, b) as floats compute it, for vectors of small integers:
\* the products and the sums are exact, the square roots, the product of the
\* norms and the quotient are each rounded
CosineSimilarityDouble(a, b) ==
    IF a = <<>> \/ b = <<>> \/ Len(a) # Len(b) THEN FZero
    ELSE LET dot == FromInt(Dot(a, b))
             na == FSqrt(FromInt(Dot(a, a)))
             nb == FSqrt(FromInt(Dot(b, b)))
         IN  IF na = FZero \/ nb = FZero THEN FZero
             ELSE FDiv(dot, FMul(na, nb))

MaxDim == 2         \* longest vector handed to cosine_similarity
MaxComponent == 2   \* largest component of such a vector

CosineVectors == UNION { [1..n -> -1..MaxComponent] : n \in 0..MaxDim }

\* cosine_similarity(a, b) and cosine_similarity(b, a)
CosineCall ==
    /\ obs = NoObs
    /\ build = NoBuild
    /\ \E a \in CosineVectors, b \in CosineVectors :
        obs' = [op |-> "cosine", a |-> a, b |-> b,
                ab |-> CosineSimilarityDouble(a, b),
                ba |-> CosineSimilarityDouble(b, a)]
    /\ Observed("cosine_similarity")
    /\ UNCHANGED <<files, store, now, edits, saves, startup, rag, probe, site, tool, writers, build>>

SpecCosine == InitEmbed /\ [][CosineCall]_vars

----------------------------------------------------------------------------
(* Vocabulary of the properties *)

Persisted == Load(store, get_rag_index_path)

ChunkSet(chunks) == {chunks[i] : i \in 1..Len(chunks)}

Content(c) == [id |-> c.id, text |-> c.text, embedding |-> c.embedding]

ContentSet(chunks) == {Content(chunks[i]) : i \in 1..Len(chunks)}

Unembedded(chunks) == [i \in 1..Len(chunks) |-> [chunks[i] EXCEPT !.embedding = <<>>]]

Built == lastOp \in {"build_index", "build_index_incremental"}

AllPaths == UserPaths \cup StorePaths

\* the file at p as the last build found it
DiskAtWalk(p) ==
    IF p = get_rag_index_path
    THEN [exists |-> pre.exists, lines |-> IndexFileLines(pre.chunks), mtime |-> pre.mtime]
    ELSE OnDisk(p, files, store)

RecordedTimes(p) ==
    {pre.chunks[i].modified_time : i \in {j \in 1..Len(pre.chunks) : pre.chunks[j].path = p}}

\* p was in the index and is newer on disk than the index says
ModifiedSinceIndexed(p) ==
    /\ DiskAtWalk(p).exists
    /\ RecordedTimes(p) # {}
    /\ \A t \in RecordedTimes(p) : DiskAtWalk(p).mtime > t

\* p is as the index describes it, or is in neither the index nor (with any text) on disk
SameAsIndexed(p) ==
    IF RecordedTimes(p) = {}
    THEN ~DiskAtWalk(p).exists \/ IsBlankText(DiskAtWalk(p).lines)
    ELSE /\ DiskAtWalk(p).exists
         /\ RecordedTimes(p) = {DiskAtWalk(p).mtime}
         /\ \A i \in 1..Len(pre.chunks) :
               pre.chunks[i].path = p =>
                 /\ pre.chunks[i].end_line <= Len(DiskAtWalk(p).lines)
                 /\ pre.chunks[i].text =
                      SubSeq(DiskAtWalk(p).lines, pre.chunks[i].start_line, pre.chunks[i].end_line)

RECURSIVE Concat(_)
Concat(texts) == IF texts = <<>> THEN <<>> ELSE Head(texts) \o Concat(Tail(texts))

\* the lines of a file without its blank windows of window lines each
RECURSIVE KeptLines(_, _)
KeptLines(lines, window) ==
    IF lines = <<>> THEN <<>>
    ELSE LET n == Min(window, Len(lines))
             w == SubSeq(lines, 1, n)
         IN  (IF \A i \in 1..n : w[i] = Blank THEN <<>> ELSE w)
             \o KeptLines(SubSeq(lines, n + 1, Len(lines)), window)

----------------------------------------------------------------------------
(* Properties *)

\* C1: two build_index_incremental runs in succession, with no file change
\* between them, persist the same set of chunks (ids, texts, embeddings).
C1_IncrementalIdempotent ==
    LET index == Persisted IN
    incRuns = 2 => ContentSet(index) = ContentSet(pre.chunks)

\* C2: when exactly one indexed file was modified (newer on disk than indexed)
\* and nothing else changed, build_index_incremental embeds exactly the chunks
\* of that file and carries every chunk of every other file forward unchanged.
C2_EmbedsOnlyTheModifiedFile ==
    LET index == Persisted IN
    \A f \in UserPaths :
        ( /\ lastOp = "build_index_incremental"
          /\ ModifiedSinceIndexed(f)
          /\ \A p \in AllPaths \ {f} : ~ModifiedSinceIndexed(p)
          /\ \A p \in UserPaths \ {f} : SameAsIndexed(p) )
        => /\ Texts(fresh) = Texts(ChunkFile(f, files[f].lines, files[f].mtime))
           /\ \A i \in 1..Len(pre.chunks) :
                 pre.chunks[i].path # f => pre.chunks[i] \in ChunkSet(index)

\* C3: after a build of an unchanging workspace completes, every chunk of the
\* persisted index belongs to a file that exists, and a file that was re-chunked
\* (every file in build_index, a modified file in build_index_incremental) has
\* only chunks of its present lines and modification time there.
C3_NoChunkOfGoneOrOldFile ==
    LET index == Persisted IN
    Built =>
        /\ \A i \in 1..Len(index) : OnDisk(index[i].path, files, store).exists
        /\ \A p \in AllPaths :
              (lastOp = "build_index" \/ ModifiedSinceIndexed(p)) =>
                 ChunkSet(Unembedded(SelectPath(index, p)))
                    \subseteq ChunkSet(ChunkFile(p, DiskAtWalk(p).lines, DiskAtWalk(p).mtime))

\* an incremental build dropped the chunks of a deleted file and kept another file's
C3_Witness ==
    LET index == Persisted IN
    /\ lastOp = "build_index_incremental"
    /\ \E p \in UserPaths :
          /\ RecordedTimes(p) # {}
          /\ ~files[p].exists
          /\ SelectPath(index, p) = <<>>
    /\ \E q \in UserPaths : files[q].exists /\ SelectPath(index, q) # <<>>

\* C5: every chunk of the persisted index was saved with a non-empty embedding.
C5_EmbeddingPopulated ==
    LET index == Persisted IN
    \A i \in 1..Len(index) : index[i].embedding # <<>>

\* a file with an included extension outside the directories left out by name
Indexable(p) == p[3] \in include_ext /\ \A skip \in SkipDirs : ~Holds(p[1], skip)

\* C7: after build_index on an unchanging workspace, the texts of the loaded
\* chunks of each file with an included extension outside the directories left
\* out by name, joined in order, are the lines of the file less its blank
\* windows.
C7_BuildRoundTrip ==
    LET index == Persisted IN
    lastOp = "build_index" =>
        \A p \in AllPaths :
            (DiskAtWalk(p).exists /\ Indexable(p)) =>
                Concat(Texts(SelectPath(index, p)))
                    = KeptLines(DiskAtWalk(p).lines, ChunkLines)

\* C8: every chunk a build creates lies within its file, 1 <= start_line <=
\* end_line <= number of lines, starts at a multiple of chunk_lines plus 1,
\* spans at most chunk_lines lines, holds exactly those lines, is not blank,
\* and follows the previous chunk of its file without overlap.
C8_ChunkWindows ==
    LET index == Persisted IN
    Built =>
        \A i \in 1..Len(fresh) :
            LET c == fresh[i]
                lines == DiskAtWalk(c.path).lines
            IN  /\ 1 <= c.start_line
                /\ c.start_line <= c.end_line
                /\ c.end_line <= Len(lines)
                /\ (c.start_line - 1) % ChunkLines = 0
                /\ c.end_line - c.start_line + 1 <= ChunkLines
                /\ c.text = SubSeq(lines, c.start_line, c.end_line)
                /\ \E k \in 1..Len(c.text) : c.text[k] # Blank
                /\ \A j \in 1..(i - 1) :
                      fresh[j].path = c.path => fresh[j].end_line < c.start_line
                /\ \E k \in 1..Len(index) : Unembedded(index)[k] = c

\* a build chunked a file longer than one window into two chunks
C8_Witness ==
    /\ Built
    /\ \E i, j \in 1..Len(fresh) :
          /\ fresh[i].path = fresh[j].path
          /\ fresh[i].end_line < fresh[j].start_line
          /\ fresh[j].end_line - fresh[j].start_line + 1 < ChunkLines

\* C9: no two chunks of the persisted index have the same id.
C9_UniqueIds ==
    LET index == Persisted IN
    \A i, j \in 1..Len(index) : index[i].id = index[j].id => i = j

\* an incremental build kept the chunks of one file and re-chunked another
C9_Witness ==
    LET index == Persisted IN
    /\ lastOp = "build_index_incremental"
    /\ \E i \in 1..Len(index) : index[i] \in ChunkSet(pre.chunks)
    /\ \E p \in UserPaths : ModifiedSinceIndexed(p) /\ Len(SelectPath(index, p)) = 2

\* C4: the index file ensure_rag_index_built builds at startup is the index
\* file the RAG step of a search opens for the same workspace.
C4_OneIndexFile ==
    (startup.ran /\ startup.returned = "True" /\ rag.ran /\ rag.path # NoPath)
        => rag.path = startup.path

RetrievalDone == rag.ran /\ rag.status \in {"RAG completed.", "RAG completed (no matches)."}

Position(chunks, id) == CHOOSE n \in 1..Len(chunks) : chunks[n].id = id

SortedDescending(result) ==
    \A i, j \in 1..Len(result) : i < j => ~ScoreLess(result[i].score, result[j].score)

\* chunks of equal score are in the order they had in loaded
TiesKeepOrder(result, loaded) ==
    \A i, j \in 1..Len(result) :
        (i < j /\ result[i].score = result[j].score)
            => Position(loaded, result[i].id) < Position(loaded, result[j].id)

Ids(chunks) == {chunks[i].id : i \in 1..Len(chunks)}

\* C6 as claimed: for every top_k, retrieve returns at most top_k chunks, sorted
\* by descending score with ties in index order, and the whole index when top_k
\* exceeds its size.
C6_RetrieveOrdering ==
    RetrievalDone =>
        /\ Len(rag.result) <= rag.top_k
        /\ SortedDescending(rag.result)
        /\ TiesKeepOrder(rag.result, rag.loaded)
        /\ rag.top_k > Len(rag.loaded) => Ids(rag.result) = Ids(rag.loaded)

\* C6 amended: retrieve returns chunks of the loaded index, none outranked by a
\* chunk left out, sorted by descending score with ties in index order; at most
\* top_k of them when top_k >= 0, and at most the index size less |top_k| when
\* top_k < 0.  When the query has a vector the result has exactly that many
\* chunks (the whole index once top_k reaches the index size); when it has none
\* the result is empty.
C6_RetrieveOrderingBySlice ==
    RetrievalDone =>
        LET n == Len(rag.loaded)
            limit == IF rag.top_k >= 0 THEN Min(rag.top_k, n) ELSE Max(n + rag.top_k, 0)
        IN  /\ Len(rag.result) = (IF rag.vector THEN limit ELSE 0)
            /\ Ids(rag.result) \subseteq Ids(rag.loaded)
            /\ SortedDescending(rag.result)
            /\ TiesKeepOrder(rag.result, rag.loaded)
            /\ \A i \in 1..Len(rag.result) : \A j \in 1..n :
                  rag.loaded[j].id \notin Ids(rag.result) =>
                     ~ScoreLess(rag.result[i].score,
                                cosine_similarity(ServiceVector(rag.query),
                                                  rag.loaded[j].embedding))
            /\ (rag.vector /\ rag.top_k >= n) => Ids(rag.result) = Ids(rag.loaded)

\* a retrieval ranked an index with two chunks of equal score above a third
C6_Witness ==
    /\ RetrievalDone
    /\ rag.top_k > Len(rag.loaded)
    /\ \E i, j, k \in 1..Len(rag.result) :
          /\ i < j /\ j < k
          /\ rag.result[i].score = rag.result[j].score
          /\ ScoreLess(rag.result[k].score, rag.result[j].score)

IndexedFileGoneOrNewer(index, p) ==
    \/ ~OnDisk(p, files, store).exists
    \/ \E i \in 1..Len(index) :
          index[i].path = p /\ OnDisk(p, files, store).mtime > index[i].modified_time

\* C10: called on a workspace no user edit changes during the call, with at
\* most max_samples indexed files _is_index_stale answers True exactly when an
\* indexed file is gone or newer than the index says; with more, it checks
\* max_samples of them and answers True when one of those is gone or newer.
C10_StalenessCheck ==
    LET index == Persisted IN
    (probe.ran /\ lastOp = "_is_index_stale") =>
        IF Cardinality(IndexedPaths(index)) <= probe.max_samples
        THEN probe.result = (\E p \in IndexedPaths(index) : IndexedFileGoneOrNewer(index, p))
        ELSE /\ probe.sample \subseteq IndexedPaths(index)
             /\ Cardinality(probe.sample) = probe.max_samples
             /\ (\E p \in probe.sample : IndexedFileGoneOrNewer(index, p)) => probe.result

\* a sampled check found a deleted file while an unsampled file was unchanged
C10_Witness ==
    LET index == Persisted IN
    /\ probe.ran
    /\ lastOp = "_is_index_stale"
    /\ Cardinality(IndexedPaths(index)) > probe.max_samples
    /\ probe.result
    /\ \E p \in probe.sample : ~OnDisk(p, files, store).exists
    /\ \E p \in IndexedPaths(index) \ probe.sample : ~IndexedFileGoneOrNewer(index, p)

\* files build_index would read: an included extension, outside the skipped directories
EligibleCount ==
    Cardinality({p \in FilePaths \cup StorePaths :
                    OnDisk(p, files, store).exists /\ Eligible(site, p)})
      + site.empty_py + site.empty_md

\* C11: when more than 1000 files of the workspace are eligible for indexing,
\* ensure_rag_index_built returns False and begins no build and writes no index.
C11_CeilingOnEligibleFiles ==
    (startup.ran /\ lastOp = "ensure_rag_index_built" /\ EligibleCount > FileCeiling)
        => /\ startup.returned = "False"
           /\ ~startup.attempted
           /\ ~startup.saved

ToolReturned == tool.ran /\ lastOp = "search_codebase_tool"

\* C12: search_codebase_tool never raises: whatever the query, the focus areas,
\* the workspace root (a nonexistent one too) and the question type, and
\* whichever collaborator fails, the call returns a string (the bundle or the
\* error string).
C12_ToolReturnsString ==
    ToolReturned => tool.outcome \in {"bundle", "error"}

Bundled == ToolReturned /\ tool.outcome = "bundle"

Headers(sections) == [i \in 1..Len(sections) |-> sections[i].header]

\* the body of the section under a header of a bundle that has it
BodyOf(sections, header) ==
    sections[CHOOSE i \in 1..Len(sections) : sections[i].header = header].body

CoreHeaders ==
    << "## Query", "## Search Snippets", "## RAG Snippets", "## RAG Status",
       "## Direct File Snippets" >>

ListingHeader == "## Project File Listing (partial)"

\* C13: when exactly one evidence source fails inside search_codebase_tool (the
\* search subprocess, the retrieval path, or the read of a file), the call still
\* returns a bundle, and the bundle holds every one of the headers Query, Search
\* Snippets, RAG Snippets, RAG Status, Direct File Snippets and Project File Listing.
C13_FailureIsolated ==
    (ToolReturned /\ Cardinality(tool.failed) = 1)
        => /\ tool.outcome = "bundle"
           /\ \A i \in 1..Len(CoreHeaders) :
                 \E j \in 1..Len(tool.sections) : tool.sections[j].header = CoreHeaders[i]
           /\ \E j \in 1..Len(tool.sections) : tool.sections[j].header = ListingHeader

FourStatuses ==
    { "RAG completed.", "RAG completed (no matches).", "RAG retrieval failed",
      "RAG skipped (empty query)." }

\* C14: in every bundle search_codebase_tool returns, the RAG Status section is one
\* of the four statuses completed, completed with no matches, failed, skipped for
\* an empty query; it is the status of the retrieval of that call (skipped only
\* for an empty query, any other only when the retrieval ran); and the RAG
\* Snippets section is never empty.
C14_RagStatusTellsWhatHappened ==
    Bundled =>
        LET status == BodyOf(tool.sections, "## RAG Status")[1][1]
        IN  /\ status \in FourStatuses
            /\ rag.ran /\ status = rag.status
            /\ status = "RAG skipped (empty query)." <=> tool.query.text = <<>>
            /\ BodyOf(tool.sections, "## RAG Snippets") # EmptyStr

\* the README section of a bundle is the raw README cut after k lines: at most
\* ReadmeMaxLines of them, none but the first an H2 heading, the cut made only at
\* the line limit or before an H2 heading, and a two-line note after a cut
IsTruncationOf(body, raw) ==
    IF raw = EmptyStr THEN body = Placeholder.readme
    ELSE \E k \in 1..Min(Len(raw), ReadmeMaxLines) :
            /\ Len(body) >= k
            /\ SubSeq(body, 1, k) = SubSeq(raw, 1, k)
            /\ \A i \in 2..k : ~StartsH2(raw[i])
            /\ IF k = Len(raw) THEN body = raw
               ELSE /\ k = ReadmeMaxLines \/ StartsH2(raw[k + 1])
                    /\ Len(body) = k + 2
                    /\ body[k + 1] = Blank

\* the search directories of a call: the focus areas, the root without any
DirsToSearch == SearchDirs(tool.focus_areas)

\* C15: in a bundle search_codebase_tool returns, the README section is left out
\* for the question types lookup, implementation and configuration; it is there,
\* truncated, for overview and there in full when no type is given; the sections
\* come in the order Query, Search Snippets, RAG Snippets, RAG Status, Direct File
\* Snippets, README if present, Project File Listing; and the raw sections were
\* computed once: the call ran _run_rag at most once, and rg at most once on
\* each of its search directories, in their order.
C15_QuestionTypePolicy ==
    Bundled =>
        LET omitted == tool.question_type \in {"lookup", "implementation", "configuration"}
        IN  /\ Headers(tool.sections) =
                 CoreHeaders \o (IF omitted THEN <<>> ELSE <<"## README">>) \o <<ListingHeader>>
            /\ tool.question_type = "overview" =>
                 IsTruncationOf(BodyOf(tool.sections, "## README"), tool.readme_content)
            /\ tool.question_type = "None" =>
                 BodyOf(tool.sections, "## README") = OrElse(tool.readme_content, Placeholder.readme)
            /\ tool.retrievals <= 1
            /\ tool.searches <= Len(DirsToSearch)
            /\ \E at \in [1..tool.searches -> 1..Len(DirsToSearch)] :
                  /\ \A i \in 1..tool.searches : tool.searched[i] = DirsToSearch[at[i]]
                  /\ \A i, j \in 1..tool.searches : i < j => at[i] < at[j]

\* an overview bundle whose README was cut at the line limit, and one whose
\* README was cut at a heading, after one retrieval and one run of rg on each of
\* the two focus areas
C15_Witness ==
    /\ Bundled
    /\ tool.question_type = "overview"
    /\ tool.readme_content \in {ReadAll(LongReadme), ReadAll(HeadedReadme)}
    /\ Len(BodyOf(tool.sections, "## README")) < Len(tool.readme_content)
    /\ tool.retrievals = 1
    /\ tool.searched = <<"config", "docs">>

\* C16: load returns the empty sequence when there is no index file at the
\* store's path, and after any saves it returns the chunks of the most recent
\* save at that path, every field and the order as they were handed over, with
\* nothing of earlier saves.
C16_StoreIsAValue ==
    obs.op = "load" =>
        IF store[obs.path].exists
        THEN obs.loaded = obs.saved[obs.path]
        ELSE obs.loaded = <<>>

\* a load after a save of one chunk that replaced a save of two chunks
C16_Witness ==
    /\ obs.op = "load"
    /\ Len(obs.before[obs.path]) = 2
    /\ Len(obs.saved[obs.path]) = 1
    /\ obs.loaded = obs.saved[obs.path]
    /\ obs.loaded[1] \notin ChunkSet(obs.before[obs.path])

Embedded == obs.op = "embed"

Failing(answers) == {i \in 1..Len(answers) : answers[i].kind = "fail"}

\* C17: if any request of an embed call fails at transport level, the call ends
\* with an error and returns no vector, whatever it had obtained for earlier
\* texts or earlier batches; this for the batch size of the code and for smaller ones.
C17_EmbedAllOrNothing ==
    (Embedded /\ Failing(obs.answers) # {})
        => /\ obs.run.raised /\ obs.run.returned = <<>>
           /\ \A b \in OtherBatchSizes :
                 obs.by_size[b].raised /\ obs.by_size[b].returned = <<>>

\* the third request fails after two vectors were obtained, the second of them
\* in an earlier batch when batches hold one or two texts
C17_Witness ==
    /\ Embedded
    /\ Failing(obs.answers) = {3}
    /\ Len(obs.run.held) = 2
    /\ obs.run.raised /\ obs.run.returned = <<>>
    /\ obs.by_size[2].raised /\ Len(obs.by_size[2].held) = 2

\* the vectors the service produced, in the order of the texts
RECURSIVE Produced(_)
Produced(answers) ==
    IF answers = <<>> THEN <<>>
    ELSE (IF answers[1].kind \in {"embedding", "data"} THEN <<answers[1].vec>> ELSE <<>>)
         \o Produced(Tail(answers))

\* C18: an embed call in which no request fails makes one request per text, in
\* the order of the texts, and returns the vectors the service produced in that
\* order, none for a text whose answer holds no vector; and it makes the same
\* requests and returns the same vectors for every batch size.
C18_EmbedOrderAndBatches ==
    (Embedded /\ Failing(obs.answers) = {})
        => /\ ~obs.run.raised
           /\ obs.run.requests = [i \in 1..Len(obs.texts) |-> i]
           /\ obs.run.returned = Produced(obs.answers)
           /\ \A b \in OtherBatchSizes :
                 /\ obs.by_size[b].requests = obs.run.requests
                 /\ obs.by_size[b].returned = obs.run.returned

\* three texts, the second without a vector, the others with different vectors
C18_Witness ==
    /\ Embedded
    /\ Len(obs.texts) = 3
    /\ obs.answers[1].kind = "embedding"
    /\ obs.answers[2].kind \in {"null", "empty", "no_data", "other"}
    /\ obs.answers[3].kind = "data"
    /\ obs.answers[1].vec # obs.answers[3].vec
    /\ obs.run.returned = <<obs.answers[1].vec, obs.answers[3].vec>>

BothSaved == writers # NoWriters /\ \A w \in Writers : writers[w].pc = "done"

\* the call whose save ended last
LastWriter == CHOOSE w \in Writers : \A v \in Writers : writers[v].wrote <= writers[w].wrote

\* C19: when two build_index_incremental calls on one workspace overlap and both
\* have saved, the index file holds in full the chunks computed by the call
\* whose save came last: it parses, and load returns exactly those chunks.
C19_LastSaveWinsInFull ==
    BothSaved =>
        /\ IsJsonArray(store[get_rag_index_path].lines)
        /\ Load(store, get_rag_index_path) = writers[LastWriter].chunks

AllZero(v) == \A i \in 1..Len(v) : v[i] = 0

\* C20: cosine_similarity returns 0.0 whenever either vector is empty or all
\* zeros; the similarity of a nonzero vector with itself is 1.0; and the
\* similarity of a and b is that of b and a.
C20_CosineLaws ==
    obs.op = "cosine" =>
        /\ (AllZero(obs.a) \/ AllZero(obs.b)) => obs.ab = FZero
        /\ (obs.a = obs.b /\ ~AllZero(obs.a)) => obs.ab = FOne
        /\ obs.ab = obs.ba

\* the strings of the model in which the name of a skipped directory occurs
NamesSkipped == SkipDirs \cup {".git/config"}

\* the sections of evidence (every section but the echo of the query) whose body
\* holds such a string
Surfacing(sections) ==
    {i \in 1..Len(sections) :
        /\ sections[i].header # "## Query"
        /\ \E l \in 1..Len(sections[i].body) :
              \E k \in 1..Len(sections[i].body[l]) : sections[i].body[l][k] \in NamesSkipped}

\* the files outside the skipped directories that glob("**/*") finds
NormalFiles == {p \in FilePaths \ ExcludedPaths : files[p].exists}

\* C21: in a workspace that has .git, venv and __pycache__ directories next to its
\* normal files, no section of a bundle search_codebase_tool returns holds .git,
\* venv or __pycache__, and the file listing lists every normal file.
C21_ExcludedNeverSurface ==
    (Bundled /\ \E p \in ExcludedPaths : files[p].exists)
        => /\ Surfacing(tool.sections) = {}
           /\ \A p \in NormalFiles :
                 \E l \in 1..Len(BodyOf(tool.sections, ListingHeader)) :
                    BodyOf(tool.sections, ListingHeader)[l] = p

\* C22: retrieve runs build_index exactly when the persisted index loads as
\* empty, and the index a completed build leaves is the persisted one; when the
\* persisted index is not empty retrieve makes one embed call, for the query
\* alone, and leaves the index file as it was; and a retrieve whose query gets no
\* vector returns the empty list.
C22_RetrieveBuildsWhenEmpty ==
    LET index == Persisted IN
    lastOp = "retrieve" =>
        /\ obs.built <=> pre.chunks = <<>>
        /\ (obs.built /\ Len(obs.embeds) = 2) => index = obs.chunks
        /\ ~obs.built =>
              /\ obs.embeds = <<<<obs.query>>>>
              /\ Found(store, get_rag_index_path) = pre
        /\ (~obs.raised /\ ~obs.vector) => obs.result = <<>>

\* a retrieve found an index file that held no chunk, built the index of a file
\* written since and returned a chunk of it
C22_Witness ==
    LET index == Persisted IN
    /\ lastOp = "retrieve"
    /\ pre.exists /\ pre.chunks = <<>>
    /\ obs.built /\ obs.embeds = <<Texts(obs.chunks), <<obs.query>>>>
    /\ index # <<>>
    /\ obs.result # <<>>

\* C23: when the build ensure_rag_index_built begins fails (the embed call
\* raises, so that nothing is saved), on the first run as on the update of a
\* stale index, the call returns False and does not raise.
C23_StartupDegrades ==
    (startup.ran /\ lastOp = "ensure_rag_index_built" /\ startup.attempted /\ ~startup.saved)
        => startup.returned = "False"

\* C24: for every query the loop of _gather_direct_file_snippets that appends
\* combined tokens to the list it iterates over reaches the end of the list (here:
\* within MaxLoopSteps iterations), so that search_codebase_tool comes to its end.
C24_TokenLoopEnds ==
    ToolReturned =>
        /\ CombineFrom(tool.query.tokens, 1, MaxLoopSteps).ended
        /\ tool.outcome # "killed"

\* C25: after any sequence of build_index, build_index_incremental and retrieve
\* calls, no chunk of a persisted index has an index file (.ask_rag_index.json of
\* the root, .agent_engine/rag_index.json) as its path.
C25_IndexNotIndexed ==
    \A s \in StorePaths :
        LET index == Load(store, s)
        IN  \A i \in 1..Len(index) : index[i].path \notin StorePaths

\* C26: after a build, the embedding stored on a chunk of the persisted index is
\* the vector the service answers for that chunk's own text (or none, when the
\* service had no vector for it), never the vector of another chunk's text.
C26_VectorsAligned ==
    LET index == Persisted IN
    Built =>
        \A i \in 1..Len(index) :
            index[i].embedding \in {<<>>, ServiceVector(index[i].text)}

BuildRaised == lastOp \in {"build_index raised", "build_index_incremental raised"}

\* C27: when the embed call of build_index or build_index_incremental raises, the
\* index file is as it was before the call (there, with the same chunks and the
\* same modification time, or still absent), and load returns the chunks it
\* returned before.
C27_FailedBuildLeavesIndex ==
    LET index == Persisted IN
    BuildRaised =>
        /\ Found(store, get_rag_index_path) = pre
        /\ index = pre.chunks

\* an incremental build raised after it had chunked a modified file, over an
\* index that held chunks
C27_Witness ==
    LET index == Persisted IN
    /\ lastOp = "build_index_incremental raised"
    /\ pre.chunks # <<>>
    /\ \E i \in 1..Len(fresh) : fresh[i].path \in UserPaths
    /\ index = pre.chunks

\* C28: a retrieve on an index that is not empty leaves the index file as it was,
\* and after any sequence of build_index, build_index_incremental and retrieve
\* calls every chunk of the persisted index has score 0.0.
C28_ScoresNotPersisted ==
    LET index == Persisted IN
    /\ (lastOp = "retrieve" /\ pre.chunks # <<>>) => Found(store, get_rag_index_path) = pre
    /\ \A i \in 1..Len(index) : index[i].score = ZeroScore

\* a retrieve on an index that was there ranked a chunk with a score other than
\* 0.0, and the chunk has score 0.0 in the index file
C28_Witness ==
    LET index == Persisted IN
    /\ lastOp = "retrieve"
    /\ ~obs.built
    /\ \E i \in 1..Len(obs.result) :
          /\ obs.result[i].score # ZeroScore
          /\ \E j \in 1..Len(index) :
                index[j].id = obs.result[i].id /\ index[j].score = ZeroScore

\* C29: when ensure_rag_index_built has returned True and the index names no more
\* files than max_samples, the persisted index has the chunks of every user file
\* that is on disk, as the file is now, and no chunk of a file that is gone.
C29_CurrentAfterStartup ==
    LET index == Persisted IN
    ( /\ startup.ran /\ lastOp = "ensure_rag_index_built"
      /\ startup.returned = "True"
      /\ Cardinality(IndexedPaths(index)) <= max_samples )
        => /\ \A p \in UserPaths :
                 files[p].exists =>
                    Unembedded(SelectPath(index, p))
                        = ChunkFile(p, files[p].lines, files[p].mtime)
           /\ \A i \in 1..Len(index) : OnDisk(index[i].path, files, store).exists

IdsAndTexts(chunks) == {[id |-> chunks[i].id, text |-> chunks[i].text] : i \in 1..Len(chunks)}

\* the index files as the last build found them
StoreAtWalk ==
    [store EXCEPT ![get_rag_index_path] =
        [exists |-> pre.exists, lines |-> IndexFileLines(pre.chunks), mtime |-> pre.mtime]]

\* every change of the content of p since it was indexed has raised its
\* modification time
ChangesRaisedTime(p) ==
    RecordedTimes(p) = {} \/ ModifiedSinceIndexed(p) \/ SameAsIndexed(p)

\* C30: whatever index earlier builds have persisted and whatever files were
\* created, modified (each change with a later modification time) or deleted
\* since, build_index_incremental persists chunks with the ids and texts of the
\* chunks build_index would persist on the files as they are.
C30_IncrementalRefinesFull ==
    LET index == Persisted IN
    (lastOp = "build_index_incremental" /\ \A p \in AllPaths : ChangesRaisedTime(p))
        => IdsAndTexts(index)
             = IdsAndTexts(BuiltIndex(files, StoreAtWalk,
                                      CHOOSE order \in WalkOrders(site, files, StoreAtWalk) : TRUE,
                                      0))

\* an incremental build over an index of two files carried the chunk of one
\* forward and chunked the other, which had been rewritten
C30_Witness ==
    LET index == Persisted IN
    /\ lastOp = "build_index_incremental"
    /\ \A p \in AllPaths : ChangesRaisedTime(p)
    /\ \E p \in UserPaths : ModifiedSinceIndexed(p) /\ SelectPath(index, p) # <<>>
    /\ \E q \in UserPaths :
          /\ SelectPath(index, q) # <<>>
          /\ \A i \in 1..Len(index) : index[i].path = q => index[i] \in ChunkSet(pre.chunks)

====
